---------------------------- MODULE Spec2Model ----------------------------
(***************************************************************************)
(* EduSense backend: the media ingestion controller (Frames), the answer   *)
(* orchestrator (AskService.askTextQuestion) and the generation clients    *)
(* (Gemini, Groq, Claude).                                                 *)
(*                                                                         *)
(* Several specifications share the module:                                *)
(*   Spec          the media controller: concurrent HTTP requests against  *)
(*                 the Frame collection, interleaved at their awaits;      *)
(*   AskSpec       one run of askTextQuestion after the other;             *)
(*   GenSpec       one run of askWithContext after the other, per client;  *)
(*   RetrieveSpec  calls of Retriever.retrieve;                            *)
(*   RepairSpec    validateAndFixMermaid and the diagram markup stored on  *)
(*                 a Doubt;                                                *)
(*   VisionSpec    one run of processImageImmediately with the concept     *)
(*                 extraction spelled out;                                 *)
(*   ChunkSpec     Embedder.chunkText, one loop iteration per step;        *)
(*   RegionSpec    extractTextFromRegion on one Frame;                     *)
(*   InputSpec     the validation of extract-crop, rate and ask requests   *)
(*                 up to the first collaborator call or write;             *)
(*   RecordsSpec   the owner-scoped operations of AskService on Answer     *)
(*                 Records, called by two users;                           *)
(*   EmbedSpec     the query embedding and the vector size of the index;   *)
(*   ListingSpec   getUserUploads over small Frame collections.            *)
(*                                                                         *)
(* External collaborators (media hosting, OCR, rasteriser, image cropper,  *)
(* generation backends) succeed or throw, nondeterministically. The        *)
(* document store carries out the Frame operations it is asked for; for    *)
(* Doubt.create, whose failure askTextQuestion handles explicitly, it may  *)
(* refuse. A handler is one step per stretch between awaits that reach the *)
(* Frame collection, so requests interleave exactly where the code lets    *)
(* them.                                                                   *)
(***************************************************************************)
EXTENDS Integers, Sequences, FiniteSets, TLC

VARIABLES
    frames,          \* the Frame collection: id -> document (NoFrame when absent)
    nextId,          \* next fresh ObjectId
    tasks,           \* HTTP requests in flight, one per connection slot
    bg,              \* processImageImmediately runs nobody awaits (extractCrop)
    everProcessing,  \* history: Frames whose stored status has been processing
    doubts,          \* the Doubt collection (Answer Records), in creation order
    ask,             \* the askTextQuestion call in progress
    gen,             \* the askWithContext call in progress
    ret,             \* the last call of Retriever.retrieve
    chunker,         \* the call of Embedder.chunkText in progress
    repair,          \* the last call of validateAndFixMermaid
    vision,          \* a run of processImageImmediately, concept extraction included
    request,         \* an HTTP request followed from its validation to its response
    records,         \* Answer Records and the last owner-scoped operation on them
    embed,           \* the last call of generateEmbedding and the query it served
    listing,         \* the last my-uploads listing
    region           \* the last extractTextFromRegion request

mediaVars == <<frames, nextId, tasks, bg, everProcessing>>
askVars   == <<doubts, ask>>
genVars   == <<gen>>
libVars   == <<ret, chunker, repair, vision, request, records, embed, listing, region>>
vars      == <<frames, nextId, tasks, bg, everProcessing, doubts, ask, gen,
               ret, chunker, repair, vision, request, records, embed, listing, region>>

(***************************************************************************)
(* Bounds                                                                  *)
(***************************************************************************)
MaxFrames == 3
MaxPages  == 2

FrameIds == 1..MaxFrames
Slots    == {"c1", "c2"}
Users    == {"u1", "u2"}
\* The users who upload; the other user only addresses Frames that are not theirs.
Uploaders == {"u1"}
Null     == 0

(***************************************************************************)
(* Frame documents (models/Frame.js)                                       *)
(***************************************************************************)
NoFrame ==
    [sourceType |-> "none", sourceUrl |-> "none", pdfId |-> Null, pageNumber |-> Null,
     status |-> "none", processingError |-> "null", hasWords |-> FALSE,
     createdBy |-> "none"]

\* Frame.create(...) with the schema defaults: ocrRaw {}, processingError null.
NewFrame(type, pdf, pageNo, st, user) ==
    [sourceType |-> type, sourceUrl |-> "http", pdfId |-> pdf, pageNumber |-> pageNo,
     status |-> st, processingError |-> "null", hasWords |-> FALSE,
     createdBy |-> user]

Exists(F, f) == f \in FrameIds /\ F[f].sourceType # "none"

Terminal(st) == st \in {"completed", "failed"}

\* A Frame schema with a previewUrl that reads the stored sourceUrl.
previewUrlFromSourceUrl(fr) == fr.sourceUrl

\* The schema declares no previewUrl path and no such virtual: reading it from a
\* document yields undefined.
previewUrl(fr) == "undefined"

\* ocrService.extractText: Tesseract.recognize rejects when it is given no image;
\* on a URL it either recognises the text or throws.
extractTextOutcomes(url) ==
    IF url = "undefined" THEN {"throw"} ELSE {"ok", "throw"}

\* The parent document Frame of an upload-pdf request: sourceType pdf_page, no pdfId.
\* Its sourceUrl is the raw PDF, which sharp cannot decode.
IsPdfDocument(fr) == fr.sourceType = "pdf_page" /\ fr.pdfId = Null


(***************************************************************************)
(* Requests in flight                                                      *)
(***************************************************************************)
IdleTask ==
    [op |-> "idle", pc |-> "idle", user |-> "none", fid |-> Null, parent |-> Null,
     page |-> 0, npages |-> 0, created |-> {}, input |-> "none", source |-> "none",
     kind |-> "none", removed |-> {}]

\* A new request takes the first connection that is free (the connections are
\* interchangeable).
Free(s) == tasks[s].pc = "idle" /\ (s = "c1" \/ tasks["c1"].pc # "idle")

\* res.status(c).json(...): the request of slot s is over.
Respond(s, o, c, st) == tasks' = [tasks EXCEPT ![s] = IdleTask]

\* Frames a request in flight may still create (ids are never reused).
Reserved(t) ==
    CASE t.pc = "pdf_convert" -> MaxPages
      [] t.pc \in {"pdf_page", "page_p1", "page_p2"} -> t.npages - t.page
      [] t.pc = "crop_work" -> 1
      [] OTHER -> 0

RECURSIVE SumReserved(_)
SumReserved(S) ==
    IF S = {} THEN 0
    ELSE LET s == CHOOSE x \in S : TRUE
         IN  Reserved(tasks[s]) + SumReserved(S \ {s})

Room(need) == (nextId - 1) + SumReserved(Slots) + need <= MaxFrames

(***************************************************************************)
(* processImageImmediately(frameId, imageUrl)                              *)
(***************************************************************************)
\* A catch that records the status and drops the message.
MarkFailedNoMessage(F, f) ==
    IF Exists(F, f) THEN [F EXCEPT ![f].status = "failed"] ELSE F

\* A run that goes on to its OCR without saving the processing status first.
MarkProcessingSkipped(F, f) == F

\* catch: Frame.findByIdAndUpdate(frameId, {status: 'failed', processingError}).
\* No upsert: a missing Frame stays missing.
MarkFailed(F, f) ==
    IF Exists(F, f)
    THEN [F EXCEPT ![f].status = "failed", ![f].processingError = "message"]
    ELSE F

\* findById, then frame.status = 'processing'; frame.save().
MarkProcessing(F, f) == [F EXCEPT ![f].status = "processing"]

\* The second half of a run: OCR, concept extraction, the final save.
\*   ocr      what ocrService.extractText did ("ok" | "throw")
\*   valid    whether the values assigned pass the schema's validators on save
\*            (visionService.extractConcepts hands back the backend's difficulty
\*            string, which the enum of Frame.difficulty may reject)
\*   words    whether the OCR result holds at least one word
\* save() of a document that was deleted meanwhile throws; the catch then updates
\* nothing.
\* A run that returns after the OCR without its final save and without its catch.
FinishFramesNotSaved(F, f, ocr, valid, words) == F

FinishFrames(F, f, ocr, valid, words) ==
    IF ocr = "ok" /\ valid /\ Exists(F, f)
    THEN [F EXCEPT ![f].status = "completed", ![f].hasWords = words]
    ELSE MarkFailed(F, f)

NoteProcessing(F) ==
    everProcessing \cup {f \in FrameIds : F[f].status = "processing"}

(***************************************************************************)
(* uploadImage                                                             *)
(***************************************************************************)
Begin(o, u) == [IdleTask EXCEPT !.op = o, !.user = u]

UploadImageStart(s, u) ==
    /\ Free(s)
    /\ Room(1)
    /\ \/ /\ Respond(s, "upload-image", 400, "none")      \* no file
          /\ UNCHANGED <<frames, nextId>>
       \/ /\ Respond(s, "upload-image", 500, "none")      \* cloudinary upload throws
          /\ UNCHANGED <<frames, nextId>>
       \/ /\ frames' = [frames EXCEPT ![nextId] = NewFrame("image", Null, Null, "queued", u)]
          /\ nextId' = nextId + 1
          /\ tasks' = [tasks EXCEPT ![s] =
                 [Begin("upload-image", u) EXCEPT !.pc = "img_p1", !.fid = nextId,
                                                  !.created = {nextId}]]
    /\ UNCHANGED <<bg, everProcessing, doubts, ask, gen, libVars>>

\* Where the caller of processImageImmediately goes on when the run returns.
AfterProcessImage(t) ==
    IF t.op = "upload-image" THEN "img_resp"
    ELSE IF t.page < t.npages THEN "pdf_page" ELSE "pdf_finish"

\* processImageImmediately, first half, awaited by uploadImage or by the page loop.
ProcessImageBegin(s) ==
    /\ tasks[s].pc \in {"img_p1", "page_p1"}
    /\ LET t == tasks[s] IN
       IF Exists(frames, t.fid)
       THEN /\ frames' = MarkProcessing(frames, t.fid)
            /\ tasks' = [tasks EXCEPT ![s].pc = IF t.pc = "img_p1" THEN "img_p2" ELSE "page_p2"]
       ELSE \* if (!frame) return;
            /\ frames' = frames
            /\ tasks' = [tasks EXCEPT ![s].pc = AfterProcessImage(t)]
    /\ everProcessing' = NoteProcessing(frames')
    /\ UNCHANGED <<nextId, bg, doubts, ask, gen, libVars>>

ProcessImageFinish(s) ==
    /\ tasks[s].pc \in {"img_p2", "page_p2"}
    /\ LET t == tasks[s] IN
       \E ocr \in extractTextOutcomes("http"), valid \in BOOLEAN, words \in BOOLEAN :
          /\ (ocr = "throw" => valid /\ words)
          /\ frames' = FinishFrames(frames, t.fid, ocr, valid, words)
          /\ tasks' = [tasks EXCEPT ![s].pc = AfterProcessImage(t)]
    /\ UNCHANGED <<nextId, bg, everProcessing, doubts, ask, gen, libVars>>

\* Frame.findById(frame._id), then the 201 with the stored status; a Frame deleted
\* meanwhile makes processedFrame null and the handler answers 500.
UploadImageRespond(s) ==
    /\ tasks[s].pc = "img_resp"
    /\ LET t == tasks[s] IN
       IF Exists(frames, t.fid)
       THEN Respond(s, "upload-image", 201, frames[t.fid].status)
       ELSE Respond(s, "upload-image", 500, "none")
    /\ UNCHANGED <<frames, nextId, bg, everProcessing, doubts, ask, gen, libVars>>

(***************************************************************************)
(* uploadPdf and processPdfImmediately                                     *)
(***************************************************************************)
\* A processPdfImmediately that returns without the final update of the parent.
SetParentSkipped(F, f, st) == F

\* catch of processPdfImmediately: the parent is marked failed with the message and
\* [] is returned. Also the last statement of its try block, when st = "completed".
SetParent(F, f, st) ==
    IF ~Exists(F, f) THEN F
    ELSE IF st = "failed" THEN MarkFailed(F, f)
    ELSE [F EXCEPT ![f].status = "completed"]

\* The status uploadPdf reports in its 201: a literal.
UploadPdfReportedStatus == "completed"

UploadPdfStart(s, u) ==
    /\ Free(s)
    /\ Room(1 + MaxPages)
    /\ \/ /\ Respond(s, "upload-pdf", 400, "none")        \* no file
          /\ UNCHANGED <<frames, nextId>>
       \/ /\ Respond(s, "upload-pdf", 500, "none")        \* upload or getMetadata throws
          /\ UNCHANGED <<frames, nextId>>
       \/ /\ frames' = [frames EXCEPT ![nextId] =
                 NewFrame("pdf_page", Null, Null, "processing", u)]
          /\ nextId' = nextId + 1
          /\ tasks' = [tasks EXCEPT ![s] =
                 [Begin("upload-pdf", u) EXCEPT !.pc = "pdf_convert", !.parent = nextId,
                                                !.created = {nextId}]]
    /\ everProcessing' = NoteProcessing(frames')
    /\ UNCHANGED <<bg, doubts, ask, gen, libVars>>

\* pdfService.convertToImages(pdfBuffer)
PdfConvert(s) ==
    /\ tasks[s].pc = "pdf_convert"
    /\ LET t == tasks[s] IN
       \/ /\ frames' = SetParent(frames, t.parent, "failed")
          /\ Respond(s, "upload-pdf", 201, UploadPdfReportedStatus)
       \/ \E n \in 1..MaxPages :
            /\ tasks' = [tasks EXCEPT ![s].pc = "pdf_page", ![s].npages = n, ![s].page = 0]
            /\ UNCHANGED frames
    /\ UNCHANGED <<nextId, bg, everProcessing, doubts, ask, gen, libVars>>

\* One iteration of `for (const page of pages)` up to the call of
\* processImageImmediately: upload of the page image, Frame.create of the page.
\* Neither is inside a try of its own: a throw leaves the loop.
PdfPageCreate(s) ==
    /\ tasks[s].pc = "pdf_page"
    /\ LET t == tasks[s] IN
       \/ /\ frames' = SetParent(frames, t.parent, "failed")
          /\ Respond(s, "upload-pdf", 201, UploadPdfReportedStatus)
          /\ UNCHANGED nextId
       \/ /\ frames' = [frames EXCEPT ![nextId] =
                 NewFrame("pdf_page", t.parent, t.page + 1, "queued", t.user)]
          /\ nextId' = nextId + 1
          /\ tasks' = [tasks EXCEPT ![s].pc = "page_p1", ![s].fid = nextId,
                                    ![s].page = t.page + 1,
                                    ![s].created = t.created \cup {nextId}]
    /\ UNCHANGED <<bg, everProcessing, doubts, ask, gen, libVars>>

\* After the loop: findByIdAndUpdate(pdfFrameId, {status: 'completed'}), return,
\* and the 201 of uploadPdf.
PdfFinish(s) ==
    /\ tasks[s].pc = "pdf_finish"
    /\ frames' = SetParent(frames, tasks[s].parent, "completed")
    /\ Respond(s, "upload-pdf", 201, UploadPdfReportedStatus)
    /\ UNCHANGED <<nextId, bg, everProcessing, doubts, ask, gen, libVars>>

(***************************************************************************)
(* extractCrop                                                             *)
(***************************************************************************)
\* Validation of the body and Frame.findOne({_id: frameId, createdBy: userId}).
ExtractCropStart(s, u, f, input) ==
    /\ Free(s)
    /\ Room(1)
    /\ IF input = "missing" THEN Respond(s, "extract-crop", 400, "none")
       ELSE IF ~(Exists(frames, f) /\ frames[f].createdBy = u)
       THEN Respond(s, "extract-crop", 404, "none")
       ELSE /\ tasks' = [tasks EXCEPT ![s] =
                   [Begin("extract-crop", u) EXCEPT
                       !.pc = "crop_work", !.parent = f, !.input = input,
                       !.source = IF IsPdfDocument(frames[f]) THEN "pdf" ELSE "raster"]]
    /\ UNCHANGED <<frames, nextId, bg, everProcessing, doubts, ask, gen, libVars>>

\* Download, cropService.cropImage, upload, Frame.create of the crop, the call of
\* processImageImmediately that is not awaited, and the 201 with status 'queued'.
\* cropImage throws on a negative or out-of-bounds rectangle and on bytes sharp
\* cannot decode.
ExtractCropCreate(s) ==
    /\ tasks[s].pc = "crop_work"
    /\ LET t == tasks[s] IN
       \/ /\ Respond(s, "extract-crop", 500, "none")
          /\ UNCHANGED <<frames, nextId, bg>>
       \/ /\ t.input = "ok"
          /\ t.source = "raster"
          /\ frames' = [frames EXCEPT ![nextId] =
                 NewFrame("crop", t.parent, Null, "queued", t.user)]
          /\ nextId' = nextId + 1
          /\ bg' = bg \cup {[fid |-> nextId, pc |-> "p1"]}
          /\ Respond(s, "extract-crop", 201, "queued")
    /\ UNCHANGED <<everProcessing, doubts, ask, gen, libVars>>

\* The run of processImageImmediately that extractCrop started and left behind.
BackgroundBegin(r) ==
    /\ r \in bg
    /\ r.pc = "p1"
    /\ IF Exists(frames, r.fid)
       THEN /\ frames' = MarkProcessing(frames, r.fid)
            /\ bg' = (bg \ {r}) \cup {[r EXCEPT !.pc = "p2"]}
       ELSE /\ frames' = frames
            /\ bg' = bg \ {r}
    /\ everProcessing' = NoteProcessing(frames')
    /\ UNCHANGED <<nextId, tasks, doubts, ask, gen, libVars>>

BackgroundFinish(r) ==
    /\ r \in bg
    /\ r.pc = "p2"
    /\ \E ocr \in extractTextOutcomes("http"), valid \in BOOLEAN, words \in BOOLEAN :
          /\ (ocr = "throw" => valid /\ words)
          /\ frames' = FinishFrames(frames, r.fid, ocr, valid, words)
    /\ bg' = bg \ {r}
    /\ UNCHANGED <<nextId, tasks, everProcessing, doubts, ask, gen, libVars>>

(***************************************************************************)
(* extractTextFromRegion                                                   *)
(***************************************************************************)
\* The whole handler. A Frame without OCR words gets OCR on demand, run on
\* frame.previewUrl, and on success the result and status 'completed' are saved.
ExtractRegion(s, u, f, input) ==
    /\ Free(s)
    /\ IF input = "missing" THEN
           /\ Respond(s, "extract-region", 400, "none")
           /\ frames' = frames
       ELSE IF ~Exists(frames, f) THEN
           /\ Respond(s, "extract-region", 404, "none")
           /\ frames' = frames
       ELSE IF frames[f].createdBy # u THEN
           /\ Respond(s, "extract-region", 403, "none")
           /\ frames' = frames
       ELSE IF ~frames[f].hasWords THEN
           \E ocr \in extractTextOutcomes(previewUrl(frames[f])), words \in BOOLEAN :
              IF ocr = "ok"
              THEN /\ frames' = [frames EXCEPT ![f].status = "completed", ![f].hasWords = words]
                   /\ Respond(s, "extract-region", 200, "none")
              ELSE /\ words
                   /\ frames' = frames
                   /\ Respond(s, "extract-region", 500, "none")
       ELSE
           /\ Respond(s, "extract-region", 200, "none")
           /\ frames' = frames
    /\ UNCHANGED <<nextId, bg, everProcessing, doubts, ask, gen, libVars>>

(***************************************************************************)
(* deleteFrame                                                             *)
(***************************************************************************)
\* The schema declares no parentPdfId path: frame.parentPdfId is undefined on
\* every document.
parentPdfId(fr) == "undefined"

\* if (frame.sourceType === 'pdf_page' && !frame.parentPdfId)
CascadeCondition(fr) == fr.sourceType = "pdf_page" /\ parentPdfId(fr) = "undefined"

\* A deleteMany whose filter matches every Frame that references some Frame.
DeleteManyAnyChild(F, id) == {g \in FrameIds : Exists(F, g) /\ F[g].pdfId # Null}

\* Frame.deleteMany({ pdfId: id }): the documents it matches.
DeleteManyMatch(F, id) == {g \in FrameIds : Exists(F, g) /\ F[g].pdfId = id}

RemoveFrames(F, S) == [g \in FrameIds |-> IF g \in S THEN NoFrame ELSE F[g]]

\* What a Frame is to its user: the parent document of a PDF upload, one of its
\* pages, an image or a crop.
FrameKind(fr) ==
    IF IsPdfDocument(fr) THEN "parent"
    ELSE IF fr.sourceType = "pdf_page" THEN "page"
    ELSE fr.sourceType

\* Frame.findOne({_id: id, createdBy: userId}) and, for a pdf_page Frame, the
\* deleteMany of the Frames that reference it.
DeleteFrameStart(s, u, f) ==
    /\ Free(s)
    /\ IF ~(Exists(frames, f) /\ frames[f].createdBy = u)
       THEN /\ Respond(s, "delete-frame", 404, "none")
            /\ UNCHANGED <<frames, everProcessing>>
       ELSE LET gone == IF CascadeCondition(frames[f]) THEN DeleteManyMatch(frames, f) ELSE {}
            IN  /\ frames' = RemoveFrames(frames, gone)
                /\ tasks' = [tasks EXCEPT ![s] =
                       [Begin("delete-frame", u) EXCEPT !.pc = "del_self", !.fid = f,
                                                        !.kind = FrameKind(frames[f]),
                                                        !.removed = gone]]
                /\ everProcessing' = everProcessing \ gone
    /\ UNCHANGED <<nextId, bg, doubts, ask, gen, libVars>>

\* Frame.findByIdAndDelete(id) and the 200.
DeleteFrameFinish(s) ==
    /\ tasks[s].pc = "del_self"
    /\ frames' = RemoveFrames(frames, {tasks[s].fid})
    /\ everProcessing' = everProcessing \ {tasks[s].fid}
    /\ Respond(s, "delete-frame", 200, "none")
    /\ UNCHANGED <<nextId, bg, doubts, ask, gen, libVars>>

(***************************************************************************)
(* The media controller                                                    *)
(***************************************************************************)
\* No answer object yet / no Doubt passed to Doubt.create yet.
NoAnswer == [has |-> {}, steps |-> "none", finalAnswer |-> "none", confidence |-> 0,
             difficulty |-> "none", kind |-> "none"]
NoDoubt  == [userId |-> "none", questionText |-> "none", status |-> "none",
             answerSteps |-> "none", finalAnswer |-> "none", confidence |-> 0,
             retrievedContext |-> 0]

AskIdle ==
    [pc |-> "idle", userId |-> "none", questionText |-> "none",
     retrieval |-> "none", context |-> 0,
     answer |-> NoAnswer, error |-> "none", attempted |-> NoDoubt,
     saveError |-> "none", outcome |-> "none", thrown |-> "none"]

GenIdle ==
    [pc |-> "idle", client |-> "none", question |-> "none", context |-> 0,
     calls |-> <<>>, result |-> NoAnswer, thrown |-> "none"]

RetIdle ==
    [pc |-> "idle", topK |-> 0, filter |-> "none", failure |-> "none",
     hits |-> <<>>, result |-> <<>>, raised |-> FALSE]

\* A call of chunkText: the text, the two character sizes, the local variables
\* of the loop and the number of iterations done.
ChunkerIdle ==
    [pc |-> "idle", text |-> <<>>, chunkSizeChars |-> 0, overlapChars |-> 0,
     startIndex |-> 0, chunks |-> <<>>, iterations |-> 0]

\* The repair of diagram markup: one call of validateAndFixMermaid (input, once),
\* a second call on its result (twice), and mermaidCode of the Doubt that
\* askTextQuestion (op) or generateDiagram writes; '' is the schema default.
\* returned is the mermaidCode of what the operation hands back to its caller.
RepairIdle ==
    [pc |-> "idle", op |-> "none", input |-> <<>>, once |-> <<>>, twice |-> <<>>,
     mermaidCode |-> <<>>, returned |-> <<>>]

\* A run of processImageImmediately on one Frame: the OCR text, what
\* extractConcepts did and returned, and the fields of the Frame it writes.
VisionIdle ==
    [pc |-> "idle", text |-> "none", extraction |-> "none", concepts |-> "none",
     frame |-> [status |-> "queued", conceptTags |-> <<>>, difficulty |-> "unknown",
                processingError |-> "null"]]

\* A request: its body, the calls of external collaborators and the writes to the
\* document store made on its behalf so far, and the status of its response.
RequestIdle ==
    [pc |-> "idle", op |-> "none", body |-> "none", calls |-> <<>>, writes |-> <<>>,
     status |-> 0]

\* The Doubt collection as the owner-scoped operations see it (id -> document),
\* and the last operation: who called it on which id, what it threw and which
\* document it returned.
NoRecord == [userId |-> "none", isBookmarked |-> FALSE, rating |-> 0, mermaidCode |-> ""]

NoOperation == [op |-> "none", user |-> "none", id |-> 0, error |-> "none", returned |-> 0]

RecordsIdle == [docs |-> <<>>, last |-> NoOperation]

\* The query path of the Retriever: the question, the vector the Embedder returned
\* for it, the vector size of the index collection (0 before it is created) and
\* the vector handed to the search of the index.
EmbedIdle ==
    [pc |-> "idle", text |-> <<>>, vector |-> <<>>, collectionSize |-> 0, query |-> <<>>]

\* A my-uploads request: the caller, the Frame collection in creation order, the
\* page and limit of the query string, and the uploads and total of the response.
ListingIdle ==
    [pc |-> "idle", user |-> "none", coll |-> <<>>, page |-> 0, limit |-> 0,
     uploads |-> <<>>, total |-> 0]

\* An extractTextFromRegion request: the Frame it names, the rectangle, the URL
\* the on-demand OCR was run on, whether its result was saved on the Frame, and
\* the response with the words it selected.
RegionIdle ==
    [pc |-> "idle", frame |-> "none", rect |-> "none", ocrOn |-> "none",
     saved |-> FALSE, words |-> <<>>, status |-> 0, selected |-> <<>>]

Init ==
    /\ frames = [f \in FrameIds |-> NoFrame]
    /\ nextId = 1
    /\ tasks = [s \in Slots |-> IdleTask]
    /\ bg = {}
    /\ everProcessing = {}
    /\ doubts = <<>>
    /\ ask = AskIdle
    /\ gen = GenIdle
    /\ ret = RetIdle
    /\ chunker = ChunkerIdle
    /\ repair = RepairIdle
    /\ vision = VisionIdle
    /\ request = RequestIdle
    /\ records = RecordsIdle
    /\ embed = EmbedIdle
    /\ listing = ListingIdle
    /\ region = RegionIdle

Next ==
    \/ \E s \in Slots, u \in Uploaders : UploadImageStart(s, u)
    \/ \E s \in Slots : ProcessImageBegin(s)
    \/ \E s \in Slots : ProcessImageFinish(s)
    \/ \E s \in Slots : UploadImageRespond(s)
    \/ \E s \in Slots, u \in Uploaders : UploadPdfStart(s, u)
    \/ \E s \in Slots : PdfConvert(s)
    \/ \E s \in Slots : PdfPageCreate(s)
    \/ \E s \in Slots : PdfFinish(s)
    \/ \E s \in Slots, u \in Users, f \in FrameIds, input \in {"missing", "invalid", "ok"} :
          ExtractCropStart(s, u, f, input)
    \/ \E s \in Slots : ExtractCropCreate(s)
    \/ \E r \in bg : BackgroundBegin(r)
    \/ \E r \in bg : BackgroundFinish(r)
    \/ \E s \in Slots, u \in Users, f \in FrameIds, input \in {"missing", "ok"} :
          ExtractRegion(s, u, f, input)
    \/ \E s \in Slots, u \in Users, f \in FrameIds : DeleteFrameStart(s, u, f)
    \/ \E s \in Slots : DeleteFrameFinish(s)

Spec == Init /\ [][Next]_vars

(***************************************************************************)
(* askWithContext of the three generation clients                          *)
(***************************************************************************)
Clients == {"gemini", "groq", "claude"}

MaxContext == 2
Questions  == {"what is osmosis", "sort a list in python"}

\* const modelsToTry of GeminiClient.askWithContext.
modelsToTry == <<"gemini-1.5-flash-001", "gemini-1.5-flash", "gemini-pro", "gemini-1.0-pro">>

\* What a backend call that succeeds can hand back as text: a JSON object with
\* steps, finalAnswer and confidence; the same inside a ```json fence; the same
\* with prose around it; an empty JSON object; JSON that is not an object (an
\* array, a number, null); prose; nothing.
Texts == {"json", "fenced json", "text {json} text", "{}", "[]", "42", "null", "prose", ""}

\* JSON.parse(text): the kind of value it yields, or the SyntaxError it throws.
JsonParse(text) ==
    CASE text = "json" -> "object"
      [] text = "{}"   -> "empty object"
      [] text = "[]"   -> "array"
      [] text = "42"   -> "number"
      [] text = "null" -> "null"
      [] OTHER         -> "SyntaxError"

\* text.replace(/```json/g, '').replace(/```/g, '').trim()
StripFences(text) == IF text = "fenced json" THEN "json" ELSE text

\* content.match(/\{[\s\S]*\}/): the matched substring, or "no match".
MatchBraces(text) ==
    CASE text \in {"json", "fenced json", "text {json} text"} -> "json"
      [] text = "{}" -> "{}"
      [] OTHER -> "no match"

\* Messages of the errors a backend call can fail with.
ErrorMessages == {"503 Service Unavailable", "model output must contain"}

\* An answer object; confidence in hundredths.
AnswerObject(k, fields, st, fa, c) ==
    [has |-> fields, steps |-> st, finalAnswer |-> fa, confidence |-> c,
     difficulty |-> "none", kind |-> k]

AllFields == {"steps", "finalAnswer", "confidence"}

\* structureNonJsonResponse(content) of the Gemini and Claude clients.
structureNonJsonResponse(text) ==
    AnswerObject("structured", AllFields, "list", IF text = "" THEN "empty" ELSE "text", 75)

\* { steps: parsed.steps || [], finalAnswer: ... || '', confidence: ... || dflt }
\* of a parsed value that is not null: only the full object has the fields.
FromParsed(text, dflt) ==
    IF JsonParse(text) = "object"
    THEN AnswerObject("parsed", AllFields, "list", "text", 90)
    ELSE AnswerObject("parsed", AllFields, "empty", "empty", dflt)

\* GeminiClient.parseResponse: fences stripped, JSON.parse, else structured.
\* parsed.steps of null is a TypeError, caught like the SyntaxError.
GeminiParseResponse(text) ==
    IF JsonParse(StripFences(text)) \notin {"SyntaxError", "null"}
    THEN FromParsed(StripFences(text), 85)
    ELSE structureNonJsonResponse(text)

GeminiFallbackResponse == AnswerObject("fallback", AllFields, "list", "text", 30)

\* A loop that takes every model for the last one.
IsLastModelAlways(i) == TRUE

\* if (modelName === modelsToTry[modelsToTry.length - 1])
IsLastModel(i) == modelsToTry[i] = modelsToTry[Len(modelsToTry)]

\* GroqClient.parseResponse: JSON.parse(text) as it is (whatever value that is),
\* else the parse fallback.
\* The object parseResponse substitutes for text that is not JSON; its
\* meta.difficulty is "Unknown", which the enum of Doubt.meta.difficulty lacks.
GroqUnparsedResponse ==
    [AnswerObject("unparsed", AllFields, "list", "text", 0) EXCEPT !.difficulty = "not in enum"]

GroqParseResponse(text) ==
    IF JsonParse(text) = "object"
    THEN [AnswerObject("parsed", AllFields, "list", "text", 90) EXCEPT !.difficulty = "in enum"]
    ELSE IF JsonParse(text) # "SyntaxError" THEN AnswerObject("parsed", {}, "none", "none", 0)
    ELSE GroqUnparsedResponse

\* getFallbackResponse of the Groq client; its meta.difficulty is "N/A".
GroqFallbackResponse ==
    [AnswerObject("fallback", AllFields, "list", "text", 0) EXCEPT !.difficulty = "in enum"]

ClaudeFallbackResponse == AnswerObject("fallback", AllFields, "list", "text", 30)

\* The body of ClaudeClient.askWithContext after a call that succeeded: empty text
\* gives the fallback, content.match(/\{[\s\S]*\}/) and JSON.parse the parsed
\* object, anything else the structured text.
ClaudeParse(text) ==
    IF text = "" THEN ClaudeFallbackResponse
    ELSE IF MatchBraces(text) # "no match" THEN FromParsed(MatchBraces(text), 80)
    ELSE structureNonJsonResponse(text)

\* error.message.includes('model output must contain')
ClaudeSwallows(msg) == msg = "model output must contain"

Call(m, o, x) == [model |-> m, outcome |-> o, detail |-> x]

GenStart(c, q, n) ==
    /\ gen.pc \in {"idle", "done"}
    /\ gen' = [GenIdle EXCEPT !.pc = c, !.client = c, !.question = q, !.context = n]
    /\ UNCHANGED <<doubts, ask, mediaVars, libVars>>

\* One iteration of `for (const modelName of modelsToTry)`.
GeminiTry ==
    /\ gen.pc = "gemini"
    /\ LET i == Len(gen.calls) + 1 IN
       \/ \E text \in Texts :
            gen' = [gen EXCEPT !.calls = Append(@, Call(modelsToTry[i], "ok", text)),
                               !.result = GeminiParseResponse(text),
                               !.pc = "done"]
       \/ \E msg \in ErrorMessages :
            gen' = IF IsLastModel(i)
                   THEN [gen EXCEPT !.calls = Append(@, Call(modelsToTry[i], "error", msg)),
                                    !.result = GeminiFallbackResponse,
                                    !.pc = "done"]
                   ELSE [gen EXCEPT !.calls = Append(@, Call(modelsToTry[i], "error", msg))]
    /\ UNCHANGED <<doubts, ask, mediaVars, libVars>>

\* GroqClient.askWithContext: an empty content is thrown into its own catch.
GroqAsk ==
    /\ gen.pc = "groq"
    /\ \/ \E text \in Texts :
            gen' = [gen EXCEPT !.calls = Append(@, Call("groq", "ok", text)),
                               !.result = IF text = "" THEN GroqFallbackResponse
                                          ELSE GroqParseResponse(text),
                               !.pc = "done"]
       \/ \E msg \in ErrorMessages :
            gen' = [gen EXCEPT !.calls = Append(@, Call("groq", "error", msg)),
                               !.result = GroqFallbackResponse,
                               !.pc = "done"]
    /\ UNCHANGED <<doubts, ask, mediaVars, libVars>>

\* ClaudeClient.askWithContext: its catch rethrows every error but one.
ClaudeAsk ==
    /\ gen.pc = "claude"
    /\ \/ \E text \in Texts :
            gen' = [gen EXCEPT !.calls = Append(@, Call("claude", "ok", text)),
                               !.result = ClaudeParse(text),
                               !.pc = "done"]
       \/ \E msg \in ErrorMessages :
            gen' = IF ClaudeSwallows(msg)
                   THEN [gen EXCEPT !.calls = Append(@, Call("claude", "error", msg)),
                                    !.result = ClaudeFallbackResponse,
                                    !.pc = "done"]
                   ELSE [gen EXCEPT !.calls = Append(@, Call("claude", "error", msg)),
                                    !.thrown = msg,
                                    !.pc = "done"]
    /\ UNCHANGED <<doubts, ask, mediaVars, libVars>>

GenNext ==
    \/ \E c \in Clients, q \in Questions, n \in 0..MaxContext : GenStart(c, q, n)
    \/ GeminiTry
    \/ GroqAsk
    \/ ClaudeAsk

GenSpec == Init /\ [][GenNext]_vars

(***************************************************************************)
(* Retriever.retrieve                                                      *)
(***************************************************************************)
MaxTopK == 3

\* this.minScore = 0.5, in hundredths.
minScore == 50

\* Similarity scores of stored chunks, in hundredths.
Scores == {30, 49, 50, 90}

SortedDescending(h) == \A i \in 1..(Len(h) - 1) : h[i] >= h[i + 1]

\* What the vector index answers to a search with limit topK: at most topK
\* points, best score first.
SearchResults(topK) ==
    {h \in UNION {[1..n -> Scores] : n \in 0..topK} : SortedDescending(h)}

AtLeastMinScore(x) == x >= minScore

\* A retrieve that hands on whatever the search found.
NoScoreFilter(h) == h

\* results.filter((result) => result.score >= this.minScore)
ScoreFilter(h) == SelectSeq(h, AtLeastMinScore)

\* What retrieve returns: [] from its catch when embedQuery or search threw, the
\* filtered results otherwise.
RetrieveResult(failure, h) == IF failure # "none" THEN <<>> ELSE ScoreFilter(h)

\* The whole of retrieve: embedQuery, search, filter.
Retrieve(k, f) ==
    /\ \/ \E fail \in {"embed", "search"} :
            ret' = [RetIdle EXCEPT !.pc = "done", !.topK = k, !.filter = f,
                                   !.failure = fail,
                                   !.result = RetrieveResult(fail, <<>>)]
       \/ \E h \in SearchResults(k) :
            ret' = [RetIdle EXCEPT !.pc = "done", !.topK = k, !.filter = f,
                                   !.hits = h, !.result = RetrieveResult("none", h)]
    /\ UNCHANGED <<mediaVars, askVars, genVars, chunker, repair, vision,
                 request, records, embed, listing, region>>

RetrieveNext == \E k \in 1..MaxTopK, f \in {"none", "subject"} : Retrieve(k, f)

RetrieveSpec == Init /\ [][RetrieveNext]_vars

(***************************************************************************)
(* validateAndFixMermaid and the operations that store diagram markup       *)
(*                                                                         *)
(* Markup is a sequence of tokens; every token is a piece of text that the *)
(* regular expressions of the function treat as a unit: a diagram keyword, *)
(* a word, one character, or the fence of three backticks.                 *)
(***************************************************************************)
MaxLen == 3

\* The keywords that validateAndFixMermaid recognises at the start of a line.
Keywords == {"graph", "sequenceDiagram", "classDiagram", "stateDiagram", "mindmap"}

\* The tokens of the markup a backend sends: two of the keywords, the word
\* mermaid, another word, the characters of arrows, the statement separator,
\* white space, a character outside the allow-list, and the fence of three
\* backticks (written "fence").
InputTokens == {"graph", "mindmap", "mermaid", "A", "-", ">", ";", " ", "\n", "$", "fence"}

RECURSIVE TextsUpTo(_)
TextsUpTo(n) ==
    IF n = 0 THEN {<<>>}
    ELSE LET shorter == TextsUpTo(n - 1)
         IN  shorter \cup {Append(t, c) : t \in {u \in shorter : Len(u) = n - 1},
                                          c \in InputTokens}

\* The texts handed to validateAndFixMermaid directly and by generateDiagram.
MermaidTexts == TextsUpTo(MaxLen)

\* answer.mermaidCode || '' of an answer of the generation client: no markup, a
\* diagram, a fenced diagram, an arrow without a declaration, and text with a
\* character outside the allow-list.
AnswerMermaidTexts ==
    {<<>>,
     <<"graph", " ", "A">>,
     <<"fence", "mermaid", "\n", "mindmap", "\n", "A", "\n", "fence">>,
     <<"A", "-", "-", ">", "A", ";">>,
     <<"A", "$">>}

IsSpace(t) == t \in {" ", "\n"}

RECURSIVE TrimStart(_)
TrimStart(t) == IF t # <<>> /\ IsSpace(Head(t)) THEN TrimStart(Tail(t)) ELSE t

RECURSIVE TrimEnd(_)
TrimEnd(t) ==
    IF t # <<>> /\ IsSpace(t[Len(t)]) THEN TrimEnd(SubSeq(t, 1, Len(t) - 1)) ELSE t

\* String.prototype.trim
Trim(t) == TrimEnd(TrimStart(t))

\* String.prototype.startsWith
StartsWith(t, prefix) == Len(t) >= Len(prefix) /\ SubSeq(t, 1, Len(prefix)) = prefix

\* String.prototype.replace with a global pattern that matches the tokens pat.
RECURSIVE ReplaceAll(_, _, _)
ReplaceAll(t, pat, by) ==
    IF Len(t) < Len(pat) THEN t
    ELSE IF StartsWith(t, pat)
         THEN by \o ReplaceAll(SubSeq(t, Len(pat) + 1, Len(t)), pat, by)
         ELSE <<Head(t)>> \o ReplaceAll(Tail(t), pat, by)

\* Of a text that starts with the fence (three backticks, with or without the
\* word mermaid): the first fence and a newline after it are removed, then a
\* fence at the very end, and the text is trimmed; any other text is left alone.
RemoveOpening(t, fence) ==
    LET rest == SubSeq(t, Len(fence) + 1, Len(t))
    IN  IF rest # <<>> /\ Head(rest) = "\n" THEN Tail(rest) ELSE rest

RemoveClosing(t) ==
    IF t # <<>> /\ t[Len(t)] = "fence" THEN SubSeq(t, 1, Len(t) - 1) ELSE t

StripFence(t) ==
    IF StartsWith(t, <<"fence", "mermaid">>)
    THEN Trim(RemoveClosing(RemoveOpening(t, <<"fence", "mermaid">>)))
    ELSE IF StartsWith(t, <<"fence">>)
         THEN Trim(RemoveClosing(RemoveOpening(t, <<"fence">>)))
         ELSE t

\* replace(/;/g, '\n'), replace(/-->/g, ' --> '), replace(/---/g, ' --- ')
SeparateStatements(t) == ReplaceAll(t, <<";">>, <<"\n">>)

SpaceArrows(t) ==
    ReplaceAll(ReplaceAll(t, <<"-", "-", ">">>, <<" ", "-", "-", ">", " ">>),
               <<"-", "-", "-">>, <<" ", "-", "-", "-", " ">>)

\* String.prototype.split('\n') and Array.prototype.join('\n')
RECURSIVE SplitLines(_)
SplitLines(t) ==
    IF \A i \in 1..Len(t) : t[i] # "\n" THEN <<t>>
    ELSE LET i == CHOOSE j \in 1..Len(t) :
                      t[j] = "\n" /\ \A k \in 1..(j - 1) : t[k] # "\n"
         IN  <<SubSeq(t, 1, i - 1)>> \o SplitLines(SubSeq(t, i + 1, Len(t)))

RECURSIVE JoinLines(_)
JoinLines(lines) ==
    IF Len(lines) = 1 THEN lines[1]
    ELSE lines[1] \o <<"\n">> \o JoinLines(Tail(lines))

\* A line that the function leaves alone because its trimmed text starts with a
\* diagram keyword.
DeclaresType(line) == Trim(line) # <<>> /\ Head(Trim(line)) \in Keywords

\* A filter that lets every character through.
AnyCharacter(t) == TRUE

\* The characters outside [^\w\s\[\]\(\)\{\}\-\>\<\:\"\'\|]: words and keywords are
\* made of \w; the separator, "$" and the backticks are dropped.
AllowListed(t) == t \notin {";", "$", "fence"}

FixLine(line) ==
    IF Trim(line) = <<>> \/ DeclaresType(line) THEN line
    ELSE SelectSeq(line, AllowListed)

FixLines(t) ==
    LET lines == SplitLines(t)
    IN  JoinLines([i \in 1..Len(lines) |-> FixLine(lines[i])])

\* if (!fixed.match(/^(graph|sequenceDiagram|classDiagram|stateDiagram|mindmap)/))
\*     fixed = 'graph TD\n' + fixed
EnsureDeclaration(t) ==
    IF t # <<>> /\ Head(t) \in Keywords THEN t
    ELSE <<"graph", " ", "TD", "\n">> \o t

\* replace(/\n\n+/g, '\n')
RECURSIVE CollapseNewlines(_)
CollapseNewlines(t) ==
    IF Len(t) < 2 THEN t
    ELSE IF t[1] = "\n" /\ t[2] = "\n" THEN CollapseNewlines(Tail(t))
         ELSE <<Head(t)>> \o CollapseNewlines(Tail(t))

validateAndFixMermaid(mermaidCode) ==
    IF Trim(mermaidCode) = <<>> THEN <<>>
    ELSE Trim(CollapseNewlines(EnsureDeclaration(FixLines(SpaceArrows(
             SeparateStatements(StripFence(Trim(mermaidCode))))))))

\* validateAndFixMermaid(mermaidCode)
ValidateOnce(x) ==
    /\ repair.pc = "idle"
    /\ repair' = [RepairIdle EXCEPT !.pc = "once", !.input = x,
                                    !.once = validateAndFixMermaid(x)]
    /\ UNCHANGED <<mediaVars, askVars, genVars, ret, chunker, vision,
                 request, records, embed, listing, region>>

\* validateAndFixMermaid of what the first call returned.
ValidateTwice ==
    /\ repair.pc = "once"
    /\ repair' = [repair EXCEPT !.pc = "twice",
                                !.twice = validateAndFixMermaid(repair.once)]
    /\ UNCHANGED <<mediaVars, askVars, genVars, ret, chunker, vision,
                 request, records, embed, listing, region>>

\* askTextQuestion, try block: mermaidCode: validateAndFixMermaid(answer.mermaidCode || '')
\* on the answered record (x is the empty text when the answer has no markup), and
\* the object returned: the stored document spread, then mermaidCode:
\* answer.mermaidCode over it.
AskStoresAnswered(x) ==
    /\ repair.pc = "idle"
    /\ repair' = [RepairIdle EXCEPT !.pc = "stored", !.op = "askTextQuestion",
                                    !.input = x,
                                    !.mermaidCode = validateAndFixMermaid(x),
                                    !.returned = x]
    /\ UNCHANGED <<mediaVars, askVars, genVars, ret, chunker, vision,
                 request, records, embed, listing, region>>

\* askTextQuestion, catch block: the failed record names no mermaidCode and gets
\* the default of the schema.
AskStoresFailed ==
    /\ repair.pc = "idle"
    /\ repair' = [RepairIdle EXCEPT !.pc = "stored", !.op = "askTextQuestion catch"]
    /\ UNCHANGED <<mediaVars, askVars, genVars, ret, chunker, vision,
                 request, records, embed, listing, region>>

\* generateDiagram: doubt.mermaidCode = validateAndFixMermaid(response) and
\* doubt.save(), on a record that askTextQuestion has stored. The record is
\* followed up to its first new diagram; a later one overwrites the field in
\* the same way.
GenerateDiagram(x) ==
    /\ repair.pc = "stored"
    /\ repair' = [repair EXCEPT !.pc = "redrawn", !.op = "generateDiagram",
                                !.input = x,
                                !.mermaidCode = validateAndFixMermaid(x),
                                !.returned = validateAndFixMermaid(x)]
    /\ UNCHANGED <<mediaVars, askVars, genVars, ret, chunker, vision,
                 request, records, embed, listing, region>>

RepairNext ==
    \/ \E x \in MermaidTexts : ValidateOnce(x)
    \/ ValidateTwice
    \/ \E x \in AnswerMermaidTexts : AskStoresAnswered(x)
    \/ AskStoresFailed
    \/ \E x \in MermaidTexts : GenerateDiagram(x)

RepairSpec == Init /\ [][RepairNext]_vars

(***************************************************************************)
(* Embedder.chunkText                                                      *)
(*                                                                         *)
(* A text is a sequence of characters, each a letter or white space. The   *)
(* sizes chunkSize * avgCharsPerToken and overlapSize * avgCharsPerToken   *)
(* (1600 and 200 in the constructor) are scaled down: every pair with      *)
(* 0 < overlap < chunk size <= MaxChunkChars is tried.                     *)
(***************************************************************************)
MaxText == 5
MaxChunkChars == 3

RECURSIVE CharsUpTo(_)
CharsUpTo(n) ==
    IF n = 0 THEN {<<>>}
    ELSE LET shorter == CharsUpTo(n - 1)
         IN  shorter \cup {Append(t, c) : t \in {u \in shorter : Len(u) = n - 1},
                                          c \in {"a", " "}}

ChunkTexts == CharsUpTo(MaxText)

Min(a, b) == IF a < b THEN a ELSE b

\* An end index that ignores the chunk size.
EndIndexOfText(startIndex, chunkSizeChars, length) == length

\* Math.min(startIndex + chunkSizeChars, text.length)
EndIndex(startIndex, chunkSizeChars, length) == Min(startIndex + chunkSizeChars, length)

\* text.substring(startIndex, endIndex), for 0 <= startIndex <= endIndex <= length
Substring(text, startIndex, endIndex) == SubSeq(text, startIndex + 1, endIndex)

\* A next start without the overlap.
NextStartAtEnd(endIndex, overlapChars) == endIndex

\* startIndex = endIndex - overlapChars
NextStart(endIndex, overlapChars) == endIndex - overlapChars

\* chunks.push({ id, text: chunkText, metadata: { chunkIndex: chunks.length,
\* startChar: startIndex, endChar: endIndex } }) when chunkText.length > 0
PushChunk(chunks, chunkText, startIndex, endIndex) ==
    IF Len(chunkText) > 0
    THEN Append(chunks, [text |-> chunkText, chunkIndex |-> Len(chunks),
                         startChar |-> startIndex, endChar |-> endIndex])
    ELSE chunks

\* An exit check that fires one character before the end of the text.
BreaksBeforeEnd(startIndex, length, overlapChars) ==
    startIndex >= length - overlapChars - 1

\* if (startIndex >= text.length - overlapChars) break;
Breaks(startIndex, length, overlapChars) == startIndex >= length - overlapChars

ChunkStart(text, size, overlap) ==
    /\ chunker.pc \in {"idle", "returned"}
    /\ chunker' = [ChunkerIdle EXCEPT !.pc = "loop", !.text = text,
                                      !.chunkSizeChars = size,
                                      !.overlapChars = overlap]
    /\ UNCHANGED <<mediaVars, askVars, genVars, ret, repair, vision,
                 request, records, embed, listing, region>>

\* while (startIndex < text.length) is false: return chunks
ChunkLoopExit ==
    /\ chunker.pc = "loop"
    /\ ~(chunker.startIndex < Len(chunker.text))
    /\ chunker' = [chunker EXCEPT !.pc = "returned"]
    /\ UNCHANGED <<mediaVars, askVars, genVars, ret, repair, vision,
                 request, records, embed, listing, region>>

\* One iteration of the loop: the chunk, the new start index and the break.
ChunkIterate ==
    /\ chunker.pc = "loop"
    /\ chunker.startIndex < Len(chunker.text)
    /\ LET length     == Len(chunker.text)
           endIndex   == EndIndex(chunker.startIndex, chunker.chunkSizeChars, length)
           chunkText  == Trim(Substring(chunker.text, chunker.startIndex, endIndex))
           startIndex == NextStart(endIndex, chunker.overlapChars)
       IN  chunker' =
             [chunker EXCEPT
                !.chunks = PushChunk(chunker.chunks, chunkText, chunker.startIndex, endIndex),
                !.startIndex = startIndex,
                !.iterations = chunker.iterations + 1,
                !.pc = IF Breaks(startIndex, length, chunker.overlapChars)
                       THEN "returned" ELSE "loop"]
    /\ UNCHANGED <<mediaVars, askVars, genVars, ret, repair, vision,
                 request, records, embed, listing, region>>

ChunkNext ==
    \/ \E text \in ChunkTexts, size \in 2..MaxChunkChars :
          \E overlap \in 1..(size - 1) : ChunkStart(text, size, overlap)
    \/ ChunkLoopExit
    \/ ChunkIterate

ChunkSpec == Init /\ [][ChunkNext]_vars

\* The loop is not interrupted: a call that can take a step takes it.
ChunkLiveSpec ==
    ChunkSpec /\ WF_vars(ChunkLoopExit) /\ WF_vars(ChunkIterate)

(***************************************************************************)
(* processImageImmediately with VisionService.extractConcepts              *)
(***************************************************************************)
\* subjectKeywords of getFallbackConcepts, in the order of the source; three of the
\* five subjects, each with its first three keywords.
Subjects == <<"mathematics", "physics", "chemistry">>

subjectKeywords ==
    [mathematics |-> <<"math", "equation", "formula">>,
     physics     |-> <<"force", "energy", "velocity">>,
     chemistry   |-> <<"molecule", "atom", "reaction">>]

AllKeywords == {subjectKeywords[s][i] : s \in DOMAIN subjectKeywords, i \in 1..3}

\* text.split(/\s+/).length of the OCR texts: the empty text (one piece), and
\* texts around the two thresholds of the difficulty estimate.
WordCounts == {1, 49, 50, 200, 201}

\* An OCR text: the keywords that occur in it and its word count.
OcrTexts == [contains : SUBSET AllKeywords, words : WordCounts]

\* keywords.filter(kw => lowerText.includes(kw)).slice(0, 2)
Take(q, n) == SubSeq(q, 1, IF Len(q) < n THEN Len(q) ELSE n)

MatchedKeywords(text, subject) ==
    Take(SelectSeq(subjectKeywords[subject], LAMBDA kw : kw \in text.contains), 2)

\* The loop over subjectKeywords: conceptTags.push(...) per subject with a match.
RECURSIVE CollectTags(_, _)
CollectTags(text, i) ==
    IF i > Len(Subjects) THEN <<>>
    ELSE MatchedKeywords(text, Subjects[i]) \o CollectTags(text, i + 1)

\* wordCount < 50 ? 'easy' : wordCount > 200 ? 'hard' : 'medium'
EstimateDifficulty(words) ==
    IF words < 50 THEN "easy" ELSE IF words > 200 THEN "hard" ELSE "medium"

\* getFallbackConcepts(text); no keyword belongs to two subjects, so that
\* [...new Set(conceptTags)] drops nothing.
getFallbackConcepts(text) ==
    [conceptTags |-> Take(CollectTags(text, 1), 5),
     difficulty  |-> EstimateDifficulty(text.words)]

\* let concepts = { conceptTags: [], difficulty: 'unknown' } of the caller.
DefaultConcepts == [conceptTags |-> <<>>, difficulty |-> "unknown"]

\* What extractConcepts can do: the backend call throws, its text holds no {...},
\* JSON.parse of the match throws, or the text parses into an object.
ExtractionFailures == {"askRaw throws", "no JSON", "JSON.parse throws"}

\* The parsed objects: conceptTags given or not, difficulty one of the enum of
\* the Frame schema, a string outside it, or not given.
ParsedConcepts ==
    [conceptTags : {"absent", "given"}, difficulty : {"absent", "easy", "hard", "Medium"}]

\* { conceptTags: result.conceptTags || [], difficulty: result.difficulty || 'unknown' }
FromResult(result) ==
    [conceptTags |-> IF result.conceptTags = "given" THEN <<"calculus">> ELSE <<>>,
     difficulty  |-> IF result.difficulty = "absent" THEN "unknown" ELSE result.difficulty]

\* An extractConcepts that lets the caller's default stand when it fails.
FailedExtractionKeepsDefault(text) == DefaultConcepts

\* What extractConcepts returns when it fails: both the early return and the catch
\* block return this.getFallbackConcepts(ocrText).
FailedExtraction(text) == getFallbackConcepts(text)

\* enum of Frame.difficulty
DifficultyEnum == {"easy", "medium", "hard", "unknown"}

\* findById, frame.status = 'processing', frame.save()
VisionBegin ==
    /\ vision.pc = "idle"
    /\ vision' = [vision EXCEPT !.pc = "ocr", !.frame.status = "processing"]
    /\ UNCHANGED <<mediaVars, askVars, genVars, ret, chunker, repair,
                 request, records, embed, listing, region>>

\* ocrService.extractText: the recognised text, or a throw that the catch block
\* turns into status failed.
VisionOcr ==
    /\ vision.pc = "ocr"
    /\ \/ \E text \in OcrTexts :
             vision' = [vision EXCEPT !.pc = "extract", !.text = text]
       \/ vision' = [vision EXCEPT !.pc = "done", !.text = "throw",
                                   !.frame.status = "failed",
                                   !.frame.processingError = "ocr error"]
    /\ UNCHANGED <<mediaVars, askVars, genVars, ret, chunker, repair,
                 request, records, embed, listing, region>>

\* concepts = await visionService.extractConcepts(imageUrl, ocrResult.text)
VisionExtract ==
    /\ vision.pc = "extract"
    /\ \/ \E failure \in ExtractionFailures :
             vision' = [vision EXCEPT !.pc = "save", !.extraction = failure,
                                      !.concepts = FailedExtraction(vision.text)]
       \/ \E result \in ParsedConcepts :
             vision' = [vision EXCEPT !.pc = "save", !.extraction = "parsed",
                                      !.concepts = FromResult(result)]
    /\ UNCHANGED <<mediaVars, askVars, genVars, ret, chunker, repair,
                 request, records, embed, listing, region>>

\* The assignments and frame.save(): a difficulty outside the enum fails the
\* validation, and the catch block marks the Frame failed.
VisionSave ==
    /\ vision.pc = "save"
    /\ vision' =
          IF vision.concepts.difficulty \in DifficultyEnum
          THEN [vision EXCEPT !.pc = "done",
                              !.frame.conceptTags = vision.concepts.conceptTags,
                              !.frame.difficulty = vision.concepts.difficulty,
                              !.frame.status = "completed"]
          ELSE [vision EXCEPT !.pc = "done", !.frame.status = "failed",
                              !.frame.processingError = "ValidationError"]
    /\ UNCHANGED <<mediaVars, askVars, genVars, ret, chunker, repair,
                 request, records, embed, listing, region>>

VisionNext == VisionBegin \/ VisionOcr \/ VisionExtract \/ VisionSave

VisionSpec == Init /\ [][VisionNext]_vars

(***************************************************************************)
(* extractTextFromRegion, with the words and the rectangle spelled out      *)
(***************************************************************************)
\* Words of an OCR result: text and bounding box; the last one has no bbox.
WordPool ==
    <<[text |-> "force",  bbox |-> TRUE,  x0 |-> 0, x1 |-> 2, y0 |-> 0, y1 |-> 2],
      [text |-> "equals", bbox |-> TRUE,  x0 |-> 2, x1 |-> 4, y0 |-> 0, y1 |-> 2],
      [text |-> "mass",   bbox |-> TRUE,  x0 |-> 1, x1 |-> 2, y0 |-> 2, y1 |-> 4],
      [text |-> "times",  bbox |-> FALSE, x0 |-> 0, x1 |-> 0, y0 |-> 0, y1 |-> 0]>>

\* The word lists an OCR result can hold: the sublists of WordPool.
WordLists ==
    {SelectSeq(WordPool, LAMBDA w : w.text \in keep) :
        keep \in SUBSET {WordPool[i].text : i \in 1..Len(WordPool)}}

\* The Frames a request can name: whose they are, their image, and frame.ocrRaw
\* (the default {} of the schema, or an OCR result with its list of words).
RegionFrames ==
    [createdBy : {"caller", "other"}, sourceUrl : {"http://media/frame.png"},
     ocrRaw : {"{}", "result"}, words : WordLists]

\* req.body: whether the five fields are given, and the rectangle.
RegionBodies ==
    [given : BOOLEAN, x : {0, 1}, y : {0, 1}, width : {0, 1, 2}, height : {1, 3}]

\* !frame.ocrRaw || !frame.ocrRaw.words || frame.ocrRaw.words.length === 0
NoOcrData(fr) == fr.ocrRaw = "{}" \/ fr.words = <<>>

\* The filter: a word without bbox is skipped; the centre (x0 + x1) / 2,
\* (y0 + y1) / 2 is compared with the borders of the rectangle (everything is
\* doubled here, so that the centre is a whole number).
CentreInside(w, r) ==
    /\ w.bbox
    /\ w.x0 + w.x1 >= 2 * r.x
    /\ w.x0 + w.x1 <= 2 * (r.x + r.width)
    /\ w.y0 + w.y1 >= 2 * r.y
    /\ w.y0 + w.y1 <= 2 * (r.y + r.height)

SelectedWords(words, r) == SelectSeq(words, LAMBDA w : CentreInside(w, r))

\* The handler up to the test for OCR data: 400, 404 is left to the media
\* controller, 403, and then OCR on demand or the filter.
RegionReceive(fr, body) ==
    /\ region.pc = "idle"
    /\ region' =
          LET r == [region EXCEPT !.frame = fr, !.rect = body,
                                  !.words = IF fr.ocrRaw = "{}" THEN <<>> ELSE fr.words]
          IN  IF ~body.given THEN [r EXCEPT !.pc = "done", !.status = 400]
              ELSE IF fr.createdBy # "caller" THEN [r EXCEPT !.pc = "done", !.status = 403]
              ELSE IF NoOcrData(fr) THEN [r EXCEPT !.pc = "ocr"]
              ELSE [r EXCEPT !.pc = "filter"]
    /\ UNCHANGED <<mediaVars, askVars, genVars, ret, chunker, repair, vision,
                   request, records, embed, listing>>

\* ocrService.extractText(frame.previewUrl), the assignments and frame.save(); a
\* throw goes to the catch of the handler.
RegionOcr ==
    /\ region.pc = "ocr"
    /\ \E ocr \in extractTextOutcomes(previewUrl(region.frame)), words \in WordLists :
          region' =
             IF ocr = "ok"
             THEN [region EXCEPT !.pc = "filter", !.ocrOn = previewUrl(region.frame),
                                 !.saved = TRUE, !.words = words]
             ELSE [region EXCEPT !.pc = "done", !.ocrOn = previewUrl(region.frame),
                                 !.status = 500]
    /\ UNCHANGED <<mediaVars, askVars, genVars, ret, chunker, repair, vision,
                   request, records, embed, listing>>

\* (frame.ocrRaw.words || []).filter(...) and the response.
RegionFilter ==
    /\ region.pc = "filter"
    /\ region' = [region EXCEPT !.pc = "done", !.status = 200,
                                !.selected = SelectedWords(region.words, region.rect)]
    /\ UNCHANGED <<mediaVars, askVars, genVars, ret, chunker, repair, vision,
                   request, records, embed, listing>>

RegionNext ==
    \/ \E fr \in RegionFrames, body \in RegionBodies : RegionReceive(fr, body)
    \/ RegionOcr
    \/ RegionFilter

RegionSpec == Init /\ [][RegionNext]_vars

(***************************************************************************)
(* The owner-scoped operations of AskService on Answer Records             *)
(***************************************************************************)
MaxRecords == 2

RecordIds == 1..MaxRecords

\* Ids that name a document of the collection; a deleted document leaves its id.
Stored(docs, id) == id \in 1..Len(docs) /\ docs[id] # NoRecord

\* A query that finds the document whoever owns it.
FindById(docs, id, userId) == IF Stored(docs, id) THEN id ELSE 0

\* Doubt.findOne({ _id: doubtId, userId }) and the filter of deleteOne: the id of
\* the matching document, 0 for none.
FindOwned(docs, id, userId) ==
    IF Stored(docs, id) /\ docs[id].userId = userId THEN id ELSE 0

Operation(op, u, id, error, returned) ==
    [op |-> op, user |-> u, id |-> id, error |-> error, returned |-> returned]

\* Doubt.create of askTextQuestion: a new record of user u.
CreateRecord(u) ==
    /\ Len(records.docs) < MaxRecords
    /\ records' = [docs |-> Append(records.docs, [NoRecord EXCEPT !.userId = u]),
                   last |-> Operation("askTextQuestion", u, Len(records.docs) + 1,
                                      "none", Len(records.docs) + 1)]
    /\ UNCHANGED <<mediaVars, askVars, genVars, ret, chunker, repair, vision,
                   request, embed, listing, region>>

getDoubtById(u, id) ==
    /\ LET found == FindOwned(records.docs, id, u)
       IN  records' =
             [records EXCEPT !.last =
                 IF found = 0 THEN Operation("getDoubtById", u, id, "Doubt not found", 0)
                 ELSE Operation("getDoubtById", u, id, "none", found)]
    /\ UNCHANGED <<mediaVars, askVars, genVars, ret, chunker, repair, vision,
                   request, embed, listing, region>>

toggleBookmark(u, id) ==
    /\ LET found == FindOwned(records.docs, id, u)
       IN  records' =
             IF found = 0
             THEN [records EXCEPT !.last =
                      Operation("toggleBookmark", u, id, "Doubt not found", 0)]
             ELSE [docs |-> [records.docs EXCEPT ![found].isBookmarked = ~@],
                   last |-> Operation("toggleBookmark", u, id, "none", found)]
    /\ UNCHANGED <<mediaVars, askVars, genVars, ret, chunker, repair, vision,
                   request, embed, listing, region>>

rateDoubt(u, id, rating) ==
    /\ LET found == FindOwned(records.docs, id, u)
       IN  records' =
             IF found = 0
             THEN [records EXCEPT !.last =
                      Operation("rateDoubt", u, id, "Doubt not found", 0)]
             ELSE IF rating < 1 \/ rating > 5
             THEN [records EXCEPT !.last =
                      Operation("rateDoubt", u, id, "Rating must be between 1 and 5", 0)]
             ELSE [docs |-> [records.docs EXCEPT ![found].rating = rating],
                   last |-> Operation("rateDoubt", u, id, "none", found)]
    /\ UNCHANGED <<mediaVars, askVars, genVars, ret, chunker, repair, vision,
                   request, embed, listing, region>>

\* generateDiagram: findOne, the backend call (which may throw), the save.
generateDiagram(u, id, backend) ==
    /\ LET found == FindOwned(records.docs, id, u)
       IN  records' =
             IF found = 0
             THEN [records EXCEPT !.last =
                      Operation("generateDiagram", u, id, "Doubt not found or unauthorized", 0)]
             ELSE IF backend = "throw"
             THEN [records EXCEPT !.last =
                      Operation("generateDiagram", u, id, "backend error", 0)]
             ELSE [docs |-> [records.docs EXCEPT ![found].mermaidCode = "graph TD"],
                   last |-> Operation("generateDiagram", u, id, "none", found)]
    /\ UNCHANGED <<mediaVars, askVars, genVars, ret, chunker, repair, vision,
                   request, embed, listing, region>>

\* Doubt.deleteOne({ _id: doubtId, userId }) and the test of deletedCount.
deleteDoubt(u, id) ==
    /\ LET found == FindOwned(records.docs, id, u)
       IN  records' =
             IF found = 0
             THEN [records EXCEPT !.last =
                      Operation("deleteDoubt", u, id, "Doubt not found or unauthorized", 0)]
             ELSE [docs |-> [records.docs EXCEPT ![found] = NoRecord],
                   last |-> Operation("deleteDoubt", u, id, "none", 0)]
    /\ UNCHANGED <<mediaVars, askVars, genVars, ret, chunker, repair, vision,
                   request, embed, listing, region>>

RecordsNext ==
    \/ \E u \in Users : CreateRecord(u)
    \/ \E u \in Users, id \in RecordIds : getDoubtById(u, id)
    \/ \E u \in Users, id \in RecordIds : toggleBookmark(u, id)
    \/ \E u \in Users, id \in RecordIds, rating \in {0, 3, 6} : rateDoubt(u, id, rating)
    \/ \E u \in Users, id \in RecordIds, backend \in {"ok", "throw"} :
          generateDiagram(u, id, backend)
    \/ \E u \in Users, id \in RecordIds : deleteDoubt(u, id)

RecordsSpec == Init /\ [][RecordsNext]_vars

(***************************************************************************)
(* Embedding of a query and the vector size of the index collection        *)
(***************************************************************************)
\* QdrantService.vectorSize
vectorSize == 1536

\* GroqClient.generateEmbedding, the client the Embedder imports: the text is not
\* read and there is no second path.
generateEmbedding(text) == [i \in 1..768 |-> 0]

\* initializeCollection: the collection is created with vectorSize.
InitializeCollection ==
    /\ embed.pc = "idle"
    /\ embed' = [embed EXCEPT !.pc = "ready", !.collectionSize = vectorSize]
    /\ UNCHANGED <<mediaVars, askVars, genVars, ret, chunker, repair, vision,
                   request, records, listing, region>>

\* Retriever.retrieve, step 1: embedder.embedQuery(question).
EmbedQuery(text) ==
    /\ embed.pc = "ready"
    /\ embed' = [embed EXCEPT !.pc = "embedded", !.text = text,
                              !.vector = generateEmbedding(text)]
    /\ UNCHANGED <<mediaVars, askVars, genVars, ret, chunker, repair, vision,
                   request, records, listing, region>>

\* Retriever.retrieve, step 2: qdrantClient.search(queryEmbedding, topK, filter).
SearchIndex ==
    /\ embed.pc = "embedded"
    /\ embed' = [embed EXCEPT !.pc = "searched", !.query = embed.vector]
    /\ UNCHANGED <<mediaVars, askVars, genVars, ret, chunker, repair, vision,
                   request, records, listing, region>>

EmbedNext ==
    \/ InitializeCollection
    \/ \E text \in ChunkTexts : EmbedQuery(text)
    \/ SearchIndex

EmbedSpec == Init /\ [][EmbedNext]_vars

(***************************************************************************)
(* getUserUploads                                                          *)
(***************************************************************************)
MaxStored == 2

\* The Frames the controller creates: images, parent documents of a PDF upload,
\* their pages, and crops.
ListingFrames ==
    {NewFrame(k[1], k[2], k[3], st, u) :
        k \in {<<"image", Null, Null>>, <<"pdf_page", Null, Null>>,
               <<"pdf_page", 1, 1>>, <<"crop", 1, Null>>},
        st \in {"processing", "completed", "failed"}, u \in Users}

RECURSIVE FramesUpTo(_)
FramesUpTo(n) ==
    IF n = 0 THEN {<<>>}
    ELSE LET shorter == FramesUpTo(n - 1)
         IN  shorter \cup {Append(c, fr) : c \in {d \in shorter : Len(d) = n - 1},
                                           fr \in ListingFrames}

ListingCollections == FramesUpTo(MaxStored)

\* The filter of find and of countDocuments:
\* { createdBy: userId, parentPdfId: { $exists: false }, status: { $ne: 'failed' } }.
UploadsFilter(fr, userId) ==
    /\ fr.createdBy = userId
    /\ parentPdfId(fr) = "undefined"
    /\ fr.status # "failed"

RECURSIVE Reverse(_)
Reverse(q) == IF q = <<>> THEN <<>> ELSE Append(Reverse(Tail(q)), Head(q))

\* .skip(n)
Skip(q, n) == IF n >= Len(q) THEN <<>> ELSE SubSeq(q, n + 1, Len(q))

\* The whole handler: find with sort({createdAt: -1}), skip and limit, then
\* countDocuments with the same filter. The projection of select is left out:
\* an upload is listed as its document.
GetUserUploads(u, coll, page, limit) ==
    /\ listing.pc = "idle"
    /\ LET Matches(fr) == UploadsFilter(fr, u)
           found == SelectSeq(coll, Matches)
       IN  listing' = [pc |-> "done", user |-> u, coll |-> coll, page |-> page,
                       limit |-> limit,
                       uploads |-> Take(Skip(Reverse(found), (page - 1) * limit), limit),
                       total |-> Len(found)]
    /\ UNCHANGED <<mediaVars, askVars, genVars, ret, chunker, repair, vision,
                   request, records, embed, region>>

ListingNext ==
    \E u \in Users, coll \in ListingCollections, page \in {1, 2}, limit \in {1, 20} :
       GetUserUploads(u, coll, page, limit)

ListingSpec == Init /\ [][ListingNext]_vars

(***************************************************************************)
(* Input validation of extract-crop, rate and ask                          *)
(***************************************************************************)
CropFields == {"frameId", "x", "y", "width", "height"}

\* req.body of extract-crop: the fields it defines, their values, the scale, whose
\* Frame frameId names, and the size of the image behind its sourceUrl.
CropBodies ==
    [has    : {CropFields} \cup {CropFields \ {f} : f \in CropFields},
     x      : {-1, 0, 3},
     y      : {-1, 0},
     width  : {-2, 0, 2, 5},
     height : {0, 2, 5},
     scale  : {1, 2},
     frame  : {"own", "foreign"},
     image  : {[width |-> 4, height |-> 4]}]

\* !frameId || x === undefined || y === undefined || !width || !height
MissingCropParameters(b) ==
    \/ CropFields # b.has
    \/ b.width = 0
    \/ b.height = 0

\* cropImage: x < 0 || y < 0 || width <= 0 || height <= 0
InvalidCropCoordinates(b) == b.x < 0 \/ b.y < 0 \/ b.width <= 0 \/ b.height <= 0

\* cropImage: scaledX + scaledWidth > metadata.width || scaledY + scaledHeight >
\* metadata.height, with Math.round(v * scale) of whole numbers
ExceedsImageBounds(b) ==
    \/ b.x * b.scale + b.width * b.scale > b.image.width
    \/ b.y * b.scale + b.height * b.scale > b.image.height

Responded(r, code) == [r EXCEPT !.pc = "done", !.status = code]

Called(r, what) == [r EXCEPT !.calls = Append(r.calls, what)]

\* extractCrop up to Frame.findOne: the check of the body.
ExtractCropValidate(b) ==
    /\ request.pc = "idle"
    /\ request' =
          LET r == [request EXCEPT !.op = "extract-crop", !.body = b]
          IN  IF MissingCropParameters(b) THEN Responded(r, 400)
              ELSE [r EXCEPT !.pc = "findOne"]
    /\ UNCHANGED <<mediaVars, askVars, genVars, ret, chunker, repair, vision,
                   records, embed, listing, region>>

\* Frame.findOne({ _id: frameId, createdBy: userId })
ExtractCropFind ==
    /\ request.pc = "findOne"
    /\ request' = IF request.body.frame = "own"
                  THEN [request EXCEPT !.pc = "download"]
                  ELSE Responded(request, 404)
    /\ UNCHANGED <<mediaVars, askVars, genVars, ret, chunker, repair, vision,
                   records, embed, listing, region>>

\* axios.get(sourceFrame.sourceUrl): the image, or a throw.
ExtractCropDownload ==
    /\ request.pc = "download"
    /\ \/ request' = [Called(request, "image download") EXCEPT !.pc = "crop"]
       \/ request' = Responded(Called(request, "image download"), 500)
    /\ UNCHANGED <<mediaVars, askVars, genVars, ret, chunker, repair, vision,
                   records, embed, listing, region>>

\* cropService.cropImage: its two checks throw, and the catch of extractCrop
\* answers 500.
ExtractCropImage ==
    /\ request.pc = "crop"
    /\ request' = IF InvalidCropCoordinates(request.body) \/ ExceedsImageBounds(request.body)
                  THEN Responded(request, 500)
                  ELSE [request EXCEPT !.pc = "upload"]
    /\ UNCHANGED <<mediaVars, askVars, genVars, ret, chunker, repair, vision,
                   records, embed, listing, region>>

\* cloudinaryService.upload, Frame.create, processImageImmediately (not awaited)
\* and the response.
ExtractCropUpload ==
    /\ request.pc = "upload"
    /\ \/ request' = Responded(Called(request, "storage upload"), 500)
       \/ request' = Responded(
              [Called(Called(request, "storage upload"), "OCR")
                  EXCEPT !.writes = <<"Frame.create", "Frame.save">>], 201)
    /\ UNCHANGED <<mediaVars, askVars, genVars, ret, chunker, repair, vision,
                   records, embed, listing, region>>

\* req.body.rating of the rate request, and whose Answer Record :id names.
RateBodies ==
    [has : {{}, {"rating"}}, rating : {-1, 0, 1, 3, 5, 6}, doubt : {"own", "foreign"}]

\* !rating || rating < 1 || rating > 5
InvalidRating(b) == "rating" \notin b.has \/ b.rating = 0 \/ b.rating < 1 \/ b.rating > 5

\* rateDoubt of the controller and of AskService: the check, Doubt.findOne, save.
RateDoubtRequest(b) ==
    /\ request.pc = "idle"
    /\ request' =
          LET r == [request EXCEPT !.op = "rate", !.body = b]
          IN  IF InvalidRating(b) THEN Responded(r, 400)
              ELSE IF b.doubt # "own" THEN Responded(r, 500)
              ELSE Responded([r EXCEPT !.writes = <<"Doubt.save">>], 200)
    /\ UNCHANGED <<mediaVars, askVars, genVars, ret, chunker, repair, vision,
                   records, embed, listing, region>>

\* req.body.questionText of the ask request: absent, '', white space, a question,
\* or more than 1000 characters.
QuestionTexts == {"absent", "empty", "blank", "question", "over 1000 characters"}

\* !questionText || questionText.trim().length === 0, questionText.length > 1000
InvalidQuestion(q) == q # "question"

\* askTextQuestion of the controller: the two checks, then the service, whose
\* retrieval and generation are spelled out in AskSpec.
AskTextRequest(q) ==
    /\ request.pc = "idle"
    /\ LET r == [request EXCEPT !.op = "ask", !.body = q]
       IN  IF InvalidQuestion(q) THEN request' = Responded(r, 400)
           ELSE LET called == Called(Called(r, "embedding"), "generation backend")
                IN  \/ request' = Responded([called EXCEPT !.writes = <<"Doubt.create">>], 200)
                    \/ request' = Responded([called EXCEPT !.writes = <<"Doubt.create">>], 500)
    /\ UNCHANGED <<mediaVars, askVars, genVars, ret, chunker, repair, vision,
                   records, embed, listing, region>>

InputNext ==
    \/ \E b \in CropBodies : ExtractCropValidate(b)
    \/ ExtractCropFind
    \/ ExtractCropDownload
    \/ ExtractCropImage
    \/ ExtractCropUpload
    \/ \E b \in RateBodies : RateDoubtRequest(b)
    \/ \E q \in QuestionTexts : AskTextRequest(q)

InputSpec == Init /\ [][InputNext]_vars

(***************************************************************************)
(* AskService.askTextQuestion                                              *)
(***************************************************************************)
MaxDoubts  == 1

\* finalAnswer of the record the catch block tries to store.
Apology == "Failed to generate answer. Please try again."

\* What geminiClient.askWithContext (the Groq client, imported under that name)
\* can hand back: whatever JSON the backend produced (ParsedAnswers), the object
\* of parseResponse for a text that is no JSON, or the object of
\* getFallbackResponse.
\*   has         the top-level fields the object defines
\*   finalAnswer "text", or "empty" for the empty string
\*   difficulty  meta.difficulty as the Doubt schema sees it: inside its enum or not
\* Raw confidences, in hundredths: -0.5, 0, 0.85, 1, 1.5, 85, 100 and 150.
RawConfidences == {-50, 0, 85, 100, 150, 8500, 10000, 15000}

ParsedAnswers ==
    {a \in [has : {{"steps", "finalAnswer", "confidence"}, {"finalAnswer", "confidence"},
                   {"steps", "confidence"}, {"steps", "finalAnswer"}},
            steps : {"list"}, finalAnswer : {"text", "empty"}, confidence : RawConfidences,
            difficulty : {"in enum", "not in enum"}, kind : {"parsed"}] :
        /\ "confidence" \notin a.has => a.confidence = 0
        /\ "finalAnswer" \notin a.has => a.finalAnswer = "text"}

GeneratedAnswers == ParsedAnswers \cup {GroqUnparsedResponse, GroqFallbackResponse}

\* Number(c) > 1 ? Number(c) / 100 : Number(c), from hundredths to
\* ten-thousandths (so that the division is exact).
Rescale(c) == IF c > 100 THEN c ELSE c * 100

\* A normalisation that rescales and does not clamp.
NormalizeNoClamp(a) == IF "confidence" \notin a.has THEN 0 ELSE Rescale(a.confidence)

\* Math.min(1, Math.max(0, (Number(c) > 1 ? Number(c) / 100 : Number(c)) || 0)).
\* The raw value is in hundredths, the result in ten-thousandths; an undefined
\* confidence is NaN and ends as 0.
NormalizeConfidence(a) ==
    IF "confidence" \notin a.has THEN 0
    ELSE LET v == Rescale(a.confidence)
         IN  IF v < 0 THEN 0 ELSE IF v > 10000 THEN 10000 ELSE v

\* The document passed to Doubt.create in the try block; retrievedContext is
\* context.map(...), of which the length is kept.
AnsweredDoubt(u, q, a, context) ==
    [userId |-> u, questionText |-> q, status |-> "answered",
     answerSteps |-> a.steps,
     finalAnswer |-> IF "finalAnswer" \in a.has THEN a.finalAnswer ELSE "undefined",
     confidence |-> NormalizeConfidence(a),
     retrievedContext |-> context]

\* The document passed to Doubt.create in the catch block.
FailedDoubt(u, q) ==
    [userId |-> u, questionText |-> q, status |-> "failed",
     answerSteps |-> "empty", finalAnswer |-> Apology, confidence |-> 0,
     retrievedContext |-> 0]

\* Schema validation of the answered document: finalAnswer is required (the empty
\* string does not satisfy a required String) and meta.difficulty has an enum.
ValidAnswered(a) ==
    /\ "finalAnswer" \in a.has
    /\ a.finalAnswer # "empty"
    /\ a.difficulty = "in enum"

\* A catch block that lets the error of its own Doubt.create escape.
RethrowLatest(error, saveError) == IF saveError # "none" THEN saveError ELSE error

\* throw error; at the end of the catch block: the error that entered it.
Rethrow(error, saveError) == error

AskStart(u, q) ==
    /\ ask.pc \in {"idle", "done"}
    /\ Len(doubts) < MaxDoubts
    /\ ask' = [AskIdle EXCEPT !.pc = "retrieve", !.userId = u, !.questionText = q]
    /\ UNCHANGED <<doubts, gen, mediaVars, libVars>>

\* A caller that lets a failed retrieval end the call.
AfterRetrievalRaises(failure) == IF failure = "none" THEN "generate" ELSE "catch"

\* Where askTextQuestion goes on after retriever.retrieve: retrieve has returned
\* (it throws nothing), and a throw would be caught by the try around the call.
AfterRetrieval(failure) == "generate"

\* retriever.retrieve(questionText, topK): context is what it returns (its length
\* is kept).
AskRetrieve ==
    /\ ask.pc = "retrieve"
    /\ \E fail \in {"none", "embed", "search"}, h \in SearchResults(MaxContext) :
          /\ fail # "none" => h = <<>>
          /\ ask' = [ask EXCEPT !.pc = AfterRetrieval(fail),
                                !.retrieval = IF fail = "none" THEN "ok" ELSE fail,
                                !.context = Len(RetrieveResult(fail, h))]
    /\ UNCHANGED <<doubts, gen, mediaVars, libVars>>

\* geminiClient.askWithContext, then answer.steps.length: a TypeError when the
\* object has no steps.
AskGenerate ==
    /\ ask.pc = "generate"
    /\ \E a \in GeneratedAnswers :
          ask' = IF "steps" \in a.has
                 THEN [ask EXCEPT !.pc = "persist", !.answer = a]
                 ELSE [ask EXCEPT !.pc = "catch", !.answer = a, !.error = "TypeError"]
    /\ UNCHANGED <<doubts, gen, mediaVars, libVars>>

\* Doubt.create of the answered record: rejected by validation, refused by the
\* document store, or stored.
AskPersist ==
    /\ ask.pc = "persist"
    /\ IF ~ValidAnswered(ask.answer)
       THEN /\ ask' = [ask EXCEPT !.pc = "catch", !.error = "ValidationError"]
            /\ UNCHANGED doubts
       ELSE \/ /\ ask' = [ask EXCEPT !.pc = "catch", !.error = "MongoError"]
               /\ UNCHANGED doubts
            \/ /\ doubts' = Append(doubts,
                      AnsweredDoubt(ask.userId, ask.questionText, ask.answer, ask.context))
               /\ ask' = [ask EXCEPT !.pc = "streak"]
    /\ UNCHANGED <<gen, mediaVars, libVars>>

\* updateUserStreak (it catches whatever it throws) and the return.
AskReturn ==
    /\ ask.pc = "streak"
    /\ ask' = [ask EXCEPT !.pc = "done", !.outcome = "returned"]
    /\ UNCHANGED <<doubts, gen, mediaVars, libVars>>

\* The catch block: Doubt.create of the failed record inside its own try, then
\* throw error.
AskCatch ==
    /\ ask.pc = "catch"
    /\ \E saved \in {"ok", "MongoError on save"} :
          LET d == FailedDoubt(ask.userId, ask.questionText)
              saveError == IF saved = "ok" THEN "none" ELSE saved
          IN  /\ doubts' = IF saved = "ok" THEN Append(doubts, d) ELSE doubts
              /\ ask' = [ask EXCEPT !.pc = "done", !.attempted = d,
                                    !.saveError = saveError,
                                    !.outcome = "thrown",
                                    !.thrown = Rethrow(ask.error, saveError)]
    /\ UNCHANGED <<gen, mediaVars, libVars>>

AskNext ==
    \/ \E u \in Users, q \in Questions : AskStart(u, q)
    \/ AskRetrieve
    \/ AskGenerate
    \/ AskPersist
    \/ AskReturn
    \/ AskCatch

AskSpec == Init /\ [][AskNext]_vars

(***************************************************************************)
(* Frame lifecycle properties                                              *)
(***************************************************************************)
\* Frames that come into being, and Frames whose stored status changes, in a step.
CreatedInStep(f) == ~Exists(frames, f) /\ Exists(frames', f)

StatusChangedInStep(f) ==
    /\ Exists(frames, f)
    /\ Exists(frames', f)
    /\ frames'[f].status # frames[f].status

LifecycleTransitions ==
    {<<"queued", "processing">>, <<"processing", "completed">>, <<"processing", "failed">>}

LegalChange(f) == <<frames[f].status, frames'[f].status>> \in LifecycleTransitions

C3_FailedHasError ==
    \A f \in FrameIds :
       (Exists(frames, f) /\ frames[f].status = "failed") =>
           frames[f].processingError # "null"

\* A failed PDF parent together with a failed page of it.
C3_Witness ==
    \E f, g \in FrameIds :
       /\ Exists(frames, f) /\ IsPdfDocument(frames[f]) /\ frames[f].status = "failed"
       /\ Exists(frames, g) /\ frames[g].pdfId = f /\ frames[g].status = "failed"
       /\ frames[f].processingError # "null"
       /\ frames[g].processingError # "null"

\* The step in which the request of slot s is answered.
Answers(s, o) == tasks[s].op = o /\ tasks'[s].pc = "idle"

\* C4, as the specification states it: once a PDF has been rasterised into N pages,
\* a failure on one page (upload of its image, creation of its Frame, or its OCR)
\* stays with that page: every one of the N pages is still attempted, so the request
\* ends having gone through all N of them, and the parent document ends completed.
C4_PageFailureIsolated ==
    [][\A s \in Slots :
          (Answers(s, "upload-pdf") /\ tasks[s].npages > 0) =>
              /\ tasks[s].page = tasks[s].npages
              /\ tasks[s].pc \in {"pdf_finish"}
              /\ Exists(frames', tasks[s].parent) =>
                     frames'[tasks[s].parent].status = "completed"]_vars

\* Frames created by a request that has not been answered yet.
InFlightCreated == UNION {tasks[s].created : s \in Slots}

\* A run of processImageImmediately on Frame f between its first and its last save.
Running(f) ==
    \/ \E s \in Slots : tasks[s].pc \in {"img_p2", "page_p2"} /\ tasks[s].fid = f
    \/ [fid |-> f, pc |-> "p2"] \in bg

\* A run of processImageImmediately on Frame f that has been called and has not
\* returned.
Pending(f) ==
    \/ \E s \in Slots : tasks[s].pc \in {"img_p1", "img_p2", "page_p1", "page_p2"}
                        /\ tasks[s].fid = f
    \/ \E r \in bg : r.fid = f

\* The request that created Frame f has been answered.
Answered(f) == Exists(frames, f) /\ f \notin InFlightCreated

Deleting(f) == \E s \in Slots : tasks[s].pc = "del_self" /\ tasks[s].fid = f

\* C6, as the specification states it: a run of processImageImmediately on a Frame
\* never overlaps with a deleteFrame of that Frame, and never holds a Frame that
\* has been deleted under it.
C6_NoOverlap ==
    \A f \in FrameIds : Running(f) => (Exists(frames, f) /\ ~Deleting(f))

\* Frames removed in a step.
GoneInStep == {g \in FrameIds : Exists(frames, g) /\ ~Exists(frames', g)}

\* The page Frames of parent document f.
PageFramesOf(F, f) ==
    {g \in FrameIds : Exists(F, g) /\ F[g].sourceType = "pdf_page" /\ F[g].pdfId = f}

\* C7: deleteFrame on the parent document of a PDF removes that Frame and its page
\* Frames and no other Frame; deleteFrame on a crop removes the crop and no other
\* Frame. (The cascade is the first step of the request, the Frame itself goes in
\* the second.)
C7_DeleteEffect ==
    [][\A s \in Slots :
          /\ (tasks[s].pc = "idle" /\ tasks'[s].pc = "del_self"
                /\ tasks'[s].kind \in {"parent", "crop"}) =>
                /\ GoneInStep = IF tasks'[s].kind = "parent"
                                THEN PageFramesOf(frames, tasks'[s].fid) ELSE {}
                /\ \A g \in FrameIds \ GoneInStep : frames'[g] = frames[g]
          /\ (tasks[s].pc = "del_self" /\ tasks'[s].pc = "idle"
                /\ tasks[s].kind \in {"parent", "crop"}) =>
                /\ GoneInStep \subseteq {tasks[s].fid}
                /\ ~Exists(frames', tasks[s].fid)
                /\ \A g \in FrameIds \ {tasks[s].fid} : frames'[g] = frames[g]]_vars

\* A deleteFrame on a parent document whose pages have just been removed while a
\* Frame that is not one of them is still there.
C7_Witness ==
    \E s \in Slots :
       /\ tasks[s].pc = "del_self"
       /\ tasks[s].kind = "parent"
       /\ tasks[s].removed # {}
       /\ \E g \in FrameIds \ {tasks[s].fid} : Exists(frames, g)

\* C8: when askTextQuestion has hit an exception after retrieval (in generation or
\* in persisting the answered record), it has tried to store a record with status
\* failed, the question text of the call, the fixed apology as finalAnswer and
\* confidence 0; the record is in the collection unless that second store failed;
\* and the call ends by throwing the error it hit first, also when the second store
\* failed.
C8_FailedRecordThenRethrow ==
    (ask.pc = "done" /\ ask.error # "none") =>
        /\ ask.attempted.status = "failed"
        /\ ask.attempted.questionText = ask.questionText
        /\ ask.attempted.finalAnswer = Apology
        /\ ask.attempted.confidence = 0
        /\ ask.saveError = "none" =>
               (Len(doubts) > 0 /\ doubts[Len(doubts)] = ask.attempted)
        /\ ask.outcome = "thrown"
        /\ ask.thrown = ask.error

\* A call whose answered record was rejected and whose failed record could not be
\* stored either.
C8_Witness ==
    /\ ask.pc = "done"
    /\ ask.error = "ValidationError"
    /\ ask.saveError # "none"
    /\ ask.attempted.status = "failed"
    /\ ask.outcome = "thrown"

\* Every backend call the finished askWithContext made has failed.
AllCallsFailed ==
    /\ gen.pc = "done"
    /\ gen.calls # <<>>
    /\ \A i \in 1..Len(gen.calls) : gen.calls[i].outcome = "error"

\* C9, as the specification states it: whichever client it is, when every backend
\* call of askWithContext has failed, the call returns (it does not throw) an answer
\* object with steps, a finalAnswer and confidence 0.3.
C9_FallbackNeverRaises ==
    AllCallsFailed =>
        /\ gen.thrown = "none"
        /\ {"steps", "finalAnswer"} \subseteq gen.result.has
        /\ gen.result.confidence = 30

\* C10: the Gemini client calls the model identifiers in list order; every call
\* before the last one made has failed (so nothing is called after a success);
\* when the last call made succeeded, the result is parseResponse of its text; and
\* the fallback answer is the result only when all identifiers have been called
\* and have failed.
C10_ModelsInOrder ==
    gen.client = "gemini" =>
        LET n == Len(gen.calls) IN
        /\ n <= Len(modelsToTry)
        /\ \A i \in 1..n : gen.calls[i].model = modelsToTry[i]
        /\ \A i \in 1..(n - 1) : gen.calls[i].outcome = "error"
        /\ gen.pc = "gemini" => \A i \in 1..n : gen.calls[i].outcome = "error"
        /\ gen.pc = "done" =>
              /\ n > 0
              /\ gen.thrown = "none"
              /\ IF gen.calls[n].outcome = "ok"
                 THEN gen.result = GeminiParseResponse(gen.calls[n].detail)
                 ELSE n = Len(modelsToTry) /\ gen.result = GeminiFallbackResponse

\* Two identifiers failed, the third answered, and its parsed text is the result.
C10_Witness ==
    /\ gen.client = "gemini"
    /\ gen.pc = "done"
    /\ Len(gen.calls) = 3
    /\ gen.calls[3].outcome = "ok"
    /\ gen.result.kind = "parsed"

\* The stage the three-stage parse ends in: direct parse, parse of the extracted
\* {...} substring, line-based structuring.
ThreeStageKind(text) ==
    IF JsonParse(text) # "SyntaxError" THEN "parsed"
    ELSE IF MatchBraces(text) # "no match" THEN "parsed"
    ELSE "structured"

\* C11, as the specification states it: for every non-empty backend text and every
\* client, the parsed response comes from the direct parse if that succeeds, else
\* from the parse of the extracted {...} substring if that succeeds, else from
\* line-based structuring; nothing is thrown and the object has a steps list and a
\* finalAnswer.
C11_ThreeStageParse ==
    (gen.pc = "done" /\ gen.calls[Len(gen.calls)].outcome = "ok"
        /\ gen.calls[Len(gen.calls)].detail # "") =>
        /\ gen.thrown = "none"
        /\ {"steps", "finalAnswer"} \subseteq gen.result.has
        /\ gen.result.steps \in {"list", "empty"}
        /\ gen.result.kind = ThreeStageKind(gen.calls[Len(gen.calls)].detail)

\* The answered record of the call in progress has been stored.
AnsweredStored ==
    /\ ask.pc \in {"streak", "done"}
    /\ ask.error = "none"
    /\ Len(doubts) > 0
    /\ doubts[Len(doubts)].status = "answered"

\* C12, as the specification states it: for every raw confidence v of the
\* generated answer, the confidence stored on the answered record is v/100 when
\* v > 1 and v otherwise, and it lies in [0,1].
C12_Original ==
    (AnsweredStored /\ "confidence" \in ask.answer.has) =>
        /\ doubts[Len(doubts)].confidence = Rescale(ask.answer.confidence)
        /\ doubts[Len(doubts)].confidence \in 0..10000

\* C12, amended: the stored confidence is v/100 when v > 1 and v otherwise, then
\* clamped into [0,1]: a raw value above 100 is stored as 1, a negative one as 0,
\* and a missing or non-numeric one as 0; the stored value always lies in [0,1].
C12_NormalizedAndClamped ==
    AnsweredStored =>
        LET stored == doubts[Len(doubts)].confidence
            c == ask.answer.confidence
        IN  /\ stored \in 0..10000
            /\ "confidence" \notin ask.answer.has => stored = 0
            /\ "confidence" \in ask.answer.has =>
                  /\ c < 0 => stored = 0
                  /\ c > 10000 => stored = 10000
                  /\ (c >= 0 /\ c <= 100) => stored = c * 100
                  /\ (c > 100 /\ c <= 10000) => stored = c

\* An answered record whose raw confidence 150 was clamped to 1.
C12_Witness ==
    /\ AnsweredStored
    /\ "confidence" \in ask.answer.has
    /\ ask.answer.confidence = 15000
    /\ doubts[Len(doubts)].confidence = 10000

C14_RetrievalBestEffort ==
    ask.retrieval \in {"embed", "search"} =>
        /\ ask.context = 0
        /\ ask.pc \in {"generate", "persist", "streak", "catch", "done"}
        /\ ask.pc # "generate" => ask.answer # NoAnswer

\* A call whose search failed and that still stored an answered record.
C14_Witness ==
    /\ ask.retrieval = "search"
    /\ ask.context = 0
    /\ ask.pc = "done"
    /\ ask.outcome = "returned"
    /\ doubts[Len(doubts)].status = "answered"

\* C15: whenever retrieval yields no context and the generation client returns an
\* answer (the parsed object, the object of the parse fallback or the object of
\* the degraded fallback) and the document store does not refuse the write,
\* askTextQuestion returns, having stored a record with status answered, an empty
\* retrievedContext and a finalAnswer that is not empty, and it attempts no failed
\* record.
C15_ZeroContextAnswered ==
    (/\ ask.pc = "done"
     /\ ask.context = 0
     /\ ask.answer # NoAnswer
     /\ ask.error # "MongoError") =>
        /\ ask.outcome = "returned"
        /\ ask.attempted = NoDoubt
        /\ Len(doubts) > 0
        /\ doubts[Len(doubts)].status = "answered"
        /\ doubts[Len(doubts)].retrievedContext = 0
        /\ doubts[Len(doubts)].finalAnswer \notin {"empty", "undefined"}
\* The lines of stored markup, and the markup that the repair of diagrams
\* promises: empty, or starting with a diagram keyword and with nothing but
\* allow-listed characters on every line that does not declare a diagram type.
OnlyAllowListed(line) == \A i \in 1..Len(line) : line[i] \notin {";", "$", "fence"}

Repaired(t) ==
    \/ t = <<>>
    \/ /\ Head(t) \in Keywords
       /\ \A i \in 1..Len(SplitLines(t)) :
             LET line == SplitLines(t)[i]
             IN  DeclaresType(line) \/ OnlyAllowListed(line)

\* C16: after any sequence of askTextQuestion and generateDiagram, the diagram
\* markup stored on the record is empty or starts with one of the five diagram
\* keywords, and each of its lines that does not declare a diagram type contains
\* only allow-listed characters.
C16_StoredMarkupRepaired ==
    repair.pc \in {"stored", "redrawn"} => Repaired(repair.mermaidCode)

\* generateDiagram has stored markup made from a fenced response with no diagram
\* keyword and a character outside the allow-list.
C16_Witness ==
    /\ repair.pc = "redrawn"
    /\ repair.op = "generateDiagram"
    /\ StartsWith(repair.input, <<"fence">>)
    /\ \E i \in 1..Len(repair.input) : repair.input[i] = "$"
    /\ \A i \in 1..Len(repair.input) : repair.input[i] \notin Keywords
    /\ Len(repair.mermaidCode) > 4

\* C17: validateAndFixMermaid is idempotent: applied to its own result it returns
\* that result, also for inputs with arrows, statement separators or fences.
C17_Idempotent == repair.pc = "twice" => repair.twice = repair.once
\* A run that is over and whose concept extraction failed; extractConcepts is only
\* reached when the OCR has succeeded.
ExtractionFailed ==
    /\ vision.pc = "done"
    /\ vision.extraction \in ExtractionFailures

\* C18, as the specification states it: if concept extraction fails on a Frame
\* whose OCR succeeded, the Frame reaches completed with concept tags [] and
\* difficulty "unknown".
C18_Original ==
    ExtractionFailed =>
        /\ vision.frame.status = "completed"
        /\ vision.frame.conceptTags = <<>>
        /\ vision.frame.difficulty = "unknown"

\* C18, amended: if concept extraction fails on a Frame whose OCR succeeded, the
\* Frame reaches completed with the values of the keyword fallback: at most five
\* concept tags, each a subject keyword that occurs in the OCR text (none exactly
\* when no keyword occurs), and the difficulty estimated from the word count of
\* the text: easy below 50 words, hard above 200, medium otherwise, never unknown.
C18_FallbackConceptsStored ==
    ExtractionFailed =>
        /\ vision.frame.status = "completed"
        /\ Len(vision.frame.conceptTags) <= 5
        /\ \A i \in 1..Len(vision.frame.conceptTags) :
              vision.frame.conceptTags[i] \in vision.text.contains
        /\ (vision.frame.conceptTags = <<>>) <=> (vision.text.contains = {})
        /\ vision.frame.difficulty =
              (IF vision.text.words <= 49 THEN "easy"
               ELSE IF vision.text.words >= 201 THEN "hard" ELSE "medium")

\* A failed extraction on a long text with keywords of all three subjects: five
\* tags and difficulty hard.
C18_Witness ==
    /\ ExtractionFailed
    /\ vision.frame.status = "completed"
    /\ Len(vision.frame.conceptTags) = 5
    /\ vision.frame.difficulty = "hard"
\* The chunks of the call in progress, and texts that consist of white space.
ChunkCount == Len(chunker.chunks)

Blank(text) == Trim(text) = <<>>

\* C19: for every text (the empty text, texts no longer than the overlap and
\* texts of white space included) and every chunk size above the overlap,
\* chunkText returns after finitely many iterations of its loop, and the text of
\* every chunk has at most chunk-size characters.
C19_TerminatesWithBoundedChunks ==
    /\ [](\A i \in 1..ChunkCount :
             Len(chunker.chunks[i].text) <= chunker.chunkSizeChars)
    /\ [](chunker.iterations <= Len(chunker.text))
    /\ (chunker.pc = "loop" ~> chunker.pc = "returned")

\* A call that has returned after three iterations with a chunk of full size; and
\* calls on the empty text and on a text no longer than the overlap are among
\* the calls that return.
C19_Witness ==
    /\ chunker.pc = "returned"
    /\ chunker.iterations >= 3
    /\ \E i \in 1..ChunkCount : Len(chunker.chunks[i].text) = chunker.chunkSizeChars

\* What holds of the chunks of every call that has returned: chunkIndex counts
\* from 0 and the start offsets increase.
IndexedInOrder ==
    /\ \A i \in 1..ChunkCount : chunker.chunks[i].chunkIndex = i - 1
    /\ \A i \in 1..(ChunkCount - 1) :
          chunker.chunks[i].startChar < chunker.chunks[i + 1].startChar

\* C20, as the specification states it: for every text chunkText returns a
\* non-empty sequence of chunks, ordered by start offset, with chunkIndex 0..n-1,
\* and startChar of chunk i+1 equals endChar of chunk i minus the overlap.
C20_Original ==
    chunker.pc = "returned" =>
        /\ ChunkCount > 0
        /\ IndexedInOrder
        /\ \A i \in 1..(ChunkCount - 1) :
              chunker.chunks[i + 1].startChar =
                  chunker.chunks[i].endChar - chunker.overlapChars

\* C20, amended: chunkText returns no chunk exactly when the text is empty or all
\* white space; otherwise it returns chunks ordered by start offset with
\* chunkIndex 0..n-1, and startChar of chunk i+1 equals endChar of chunk i minus
\* the overlap unless the segment that starts there was all white space and has
\* been dropped.
C20_OrderedIndexedOverlap ==
    chunker.pc = "returned" =>
        /\ (ChunkCount = 0) <=> Blank(chunker.text)
        /\ IndexedInOrder
        /\ \A i \in 1..(ChunkCount - 1) :
              LET expected == chunker.chunks[i].endChar - chunker.overlapChars
              IN  \/ chunker.chunks[i + 1].startChar = expected
                  \/ /\ chunker.chunks[i + 1].startChar > expected
                     /\ Blank(Substring(chunker.text, expected,
                               Min(expected + chunker.chunkSizeChars,
                                   Len(chunker.text))))

\* A call that has returned three chunks, each starting the overlap before the
\* end of the one before.
C20_Witness ==
    /\ chunker.pc = "returned"
    /\ ChunkCount >= 3
    /\ \A i \in 1..(ChunkCount - 1) :
          chunker.chunks[i + 1].startChar =
              chunker.chunks[i].endChar - chunker.overlapChars
\* The requests the specification calls invalid: extract-crop with a missing
\* field or a negative or out-of-bounds rectangle, rate with a rating outside
\* 1..5, ask with an empty or over-long question.
InvalidInput ==
    \/ /\ request.op = "extract-crop"
       /\ (\/ MissingCropParameters(request.body)
           \/ InvalidCropCoordinates(request.body)
           \/ ExceedsImageBounds(request.body))
    \/ request.op = "rate" /\ InvalidRating(request.body)
    \/ request.op = "ask" /\ InvalidQuestion(request.body)

\* C21: a request with invalid input is rejected before any external collaborator
\* is called (image download, storage upload, OCR, generation backend) and leaves
\* every Frame and every Answer Record unchanged.
C21_InvalidRejectedBeforeCalls ==
    (request.op # "none" /\ InvalidInput) =>
        /\ request.calls = <<>>
        /\ request.writes = <<>>
        /\ request.pc = "done" => request.status \in {400, 404, 500}
\* C22: an extractTextFromRegion request on a Frame of the caller that has no
\* word-level OCR detail runs OCR on the image of that Frame and stores the result
\* on the Frame before it filters, and it returns exactly the words whose
\* bounding-box centre lies inside the rectangle, borders included.
C22_OcrOnDemandThenFilter ==
    (/\ region.pc = "done"
     /\ region.rect.given
     /\ region.frame.createdBy = "caller"
     /\ NoOcrData(region.frame)) =>
        /\ region.ocrOn = region.frame.sourceUrl
        /\ region.saved
        /\ region.status = 200
        /\ region.selected =
              SelectSeq(region.words, LAMBDA w : CentreInside(w, region.rect))
\* C23: after any sequence of upload, extract-crop and delete-frame operations,
\* every existing Frame of source kind crop references a parent Frame that still
\* exists.
C23_CropHasParent ==
    \A f \in FrameIds :
       (Exists(frames, f) /\ frames[f].sourceType = "crop") =>
           /\ frames[f].pdfId \in FrameIds
           /\ Exists(frames, frames[f].pdfId)
\* The call that a step of the owner-scoped operations has just made names a
\* record of another user.
OnForeignRecord(call) ==
    /\ call.op \in {"getDoubtById", "toggleBookmark", "rateDoubt", "generateDiagram",
                    "deleteDoubt"}
    /\ Stored(records.docs, call.id)
    /\ records.docs[call.id].userId # call.user

\* C24: get by id, rate, toggle bookmark, regenerate diagram and delete, called by
\* a user on a record of another user, fail with a not-found error, return no
\* record and leave every Answer Record unchanged.
C24_OwnerScoped ==
    [][OnForeignRecord(records'.last) =>
          /\ records'.docs = records.docs
          /\ records'.last.error \in {"Doubt not found", "Doubt not found or unauthorized"}
          /\ records'.last.returned = 0]_vars

\* A delete by one user on a bookmarked record of the other has failed, and the
\* record is still there.
C24_Witness ==
    /\ records.last.op = "deleteDoubt"
    /\ records.last.error = "Doubt not found or unauthorized"
    /\ Stored(records.docs, records.last.id)
    /\ records.docs[records.last.id].userId # records.last.user
    /\ records.docs[records.last.id].isBookmarked
\* C25: every vector generateEmbedding returns has the dimension of the vector it
\* returns for the empty text, and the query vector handed to the index has the
\* vector size the collection is configured with.
C25_EmbeddingDimension ==
    /\ embed.pc \in {"embedded", "searched"} =>
          Len(embed.vector) = Len(generateEmbedding(<<>>))
    /\ embed.pc = "searched" => Len(embed.query) = embed.collectionSize
\* The page Frames that the ingestion of the PDF document p has created.
PagesOf(p) ==
    {f \in FrameIds : Exists(frames, f) /\ frames[f].sourceType = "pdf_page"
                                        /\ frames[f].pdfId = p}

\* C26: within one PDF ingestion at most one page Frame has status processing, and
\* a page Frame exists only when every page Frame of a lower page number of the
\* same document has reached completed or failed.
C26_PagesInOrder ==
    \A p \in FrameIds :
       /\ Cardinality({f \in PagesOf(p) : frames[f].status = "processing"}) <= 1
       /\ \A f, g \in PagesOf(p) :
             frames[f].pageNumber < frames[g].pageNumber => Terminal(frames[f].status)

\* Page 2 of a document is being processed while its page 1 is stored as failed.
C26_Witness ==
    \E p \in FrameIds : \E f, g \in PagesOf(p) :
       /\ frames[f].pageNumber = 1 /\ frames[f].status = "failed"
       /\ frames[g].pageNumber = 2 /\ frames[g].status = "processing"

\* C27: when uploadPdf sends its 201, the status in the response is the status
\* stored on the parent PDF Frame.
C27_ReportedStatusIsStored ==
    [][\A s \in Slots :
          (/\ tasks[s].op = "upload-pdf"
           /\ tasks[s].pc \in {"pdf_convert", "pdf_page", "pdf_finish"}
           /\ tasks'[s].pc = "idle"
           /\ Exists(frames', tasks[s].parent))
          => UploadPdfReportedStatus = frames'[tasks[s].parent].status]_vars
\* C28: the diagram markup in the record askTextQuestion returns is the repaired
\* markup it has stored.
C28_ReturnedMarkupIsStored ==
    (repair.pc = "stored" /\ repair.op = "askTextQuestion") =>
        repair.returned = repair.mermaidCode
\* What the listing is said to hold: Frames of the caller that are no page of a
\* PDF parent and are not stored as failed.
Listable(fr, u) ==
    /\ fr.createdBy = u
    /\ FrameKind(fr) # "page"
    /\ fr.status # "failed"

\* C29: my-uploads returns only Frames of the caller, never a page Frame of a PDF
\* parent, never a failed Frame, and total counts exactly the Frames of the
\* collection that satisfy the same conditions.
C29_ListingFilter ==
    listing.pc = "done" =>
        /\ \A i \in 1..Len(listing.uploads) : Listable(listing.uploads[i], listing.user)
        /\ listing.total =
              Cardinality({i \in 1..Len(listing.coll) :
                              Listable(listing.coll[i], listing.user)})
\* The character at offset p (from 0) lies inside [startChar, endChar) of a chunk
\* that was returned.
Covered(p) ==
    \E i \in 1..ChunkCount :
       chunker.chunks[i].startChar <= p /\ p < chunker.chunks[i].endChar

\* C30: for every text and every chunk size above the overlap, each character of
\* the text that is not white space lies inside [startChar, endChar) of at least
\* one returned chunk; the exit check of the loop skips no tail.
C30_EveryCharacterCovered ==
    chunker.pc = "returned" =>
        \A p \in 0..(Len(chunker.text) - 1) :
           ~IsSpace(chunker.text[p + 1]) => Covered(p)

\* A call that has left the loop through the exit check after two or more
\* iterations, on a text that ends in a letter and has a segment of nothing but
\* white space that was dropped.
C30_Witness ==
    /\ chunker.pc = "returned"
    /\ chunker.iterations >= 2
    /\ chunker.startIndex < Len(chunker.text)
    /\ ~IsSpace(chunker.text[Len(chunker.text)])
    /\ ChunkCount < chunker.iterations
====
